---- MODULE Spec2Model ----
(***************************************************************************)
(* Verification model of the vehicle sales agent's retrieval core:         *)
(*   - VehicleSearchEngine / VehicleSearchService (src/src/search)         *)
(*   - fuzzy catalogue matching and catalog_search_impl (src/src/tools)    *)
(*   - FactChecker.verify_text and its consumers                           *)
(* Scores are kept as exact integers: a raw retrieval score is an integer  *)
(* in 0..MaxScore, a normalised score is an integer number of 1/Unit, and  *)
(* a combined score an integer number of 1/(WeightUnit*Unit).              *)
(***************************************************************************)
EXTENDS Integers, Sequences, FiniteSets, TLC

VARIABLES
    store,              \* the Vehicle table: the stock ids of its rows, in select order
    chroma_dir,         \* persist_directory: [exists, docs] of the persisted collection
    vector_store,       \* engine.vector_store: None or Chroma
    bm25_retriever,     \* engine.bm25_retriever: None or [type, docs, k]
    vehicles_corpus,    \* engine.vehicles_corpus
    vehicles_metadata,  \* engine.vehicles_metadata
    _initialized,       \* service._initialized
    built,              \* history: build_index built both indices on this instance
    call                \* the last call made and what it gave back

vars == <<store, chroma_dir, vector_store, bm25_retriever, vehicles_corpus,
          vehicles_metadata, _initialized, built, call>>

engineVars == <<vector_store, bm25_retriever, vehicles_corpus, vehicles_metadata>>

-----------------------------------------------------------------------------
(* Bounds of the model *)

MaxVehicles == 2
MaxScore == 2
MaxK == 2
MaxCorpus == 3
MaxLen == 3
MaxFusionIds == 3

StockIds == 1..MaxVehicles
FusionIds == 1..MaxFusionIds
Scores == 0..MaxScore

-----------------------------------------------------------------------------
(* Generic sequence helpers *)

\* Python's None, and the handle of the Chroma collection kept in persist_directory
None == [type |-> "None"]

Chroma == [type |-> "Chroma"]

Range(s) == {s[i] : i \in DOMAIN s}

Take(s, n) == IF n >= Len(s) THEN s ELSE SubSeq(s, 1, n)

SetMin(S) == CHOOSE x \in S : \A y \in S : x <= y
SetMax(S) == CHOOSE x \in S : \A y \in S : x >= y

RECURSIVE Lcm(_, _)
Lcm(n, acc) == IF n <= 1 THEN acc
               ELSE Lcm(n - 1, CHOOSE m \in acc..(acc * n) :
                                   /\ m % acc = 0 /\ m % n = 0
                                   /\ \A l \in acc..(m - 1) : ~(l % acc = 0 /\ l % n = 0))

\* 1.0 of a normalised score: every (max - min) of raw scores divides it.
Unit == Lcm(MaxScore, 1)

\* Python's sorted(pairs, key=lambda p: p[1], reverse=True) over <<item, key>>
\* pairs: descending in the key and stable (equal keys keep their order).
RECURSIVE InsertDesc(_, _)
InsertDesc(sorted, x) ==
    IF sorted = <<>> THEN <<x>>
    ELSE IF Head(sorted)[2] >= x[2]
         THEN <<Head(sorted)>> \o InsertDesc(Tail(sorted), x)
         ELSE <<x>> \o sorted

RECURSIVE SortedDesc(_)
SortedDesc(pairs) ==
    IF pairs = <<>> THEN <<>>
    ELSE InsertDesc(SortedDesc(SubSeq(pairs, 1, Len(pairs) - 1)), pairs[Len(pairs)])

-----------------------------------------------------------------------------
(* The Vehicle table and the documents made from its rows *)

\* Stock numbers have five digits; vehicle sid of the table has number
\* StockBase + sid.
StockBase == 10000

Vehicle(sid) ==
    [stock_id |-> StockBase + sid,
     make     |-> IF sid % 2 = 1 THEN "toyota" ELSE "Honda",
     model    |-> IF sid % 2 = 1 THEN "corolla" ELSE "Civic",
     year     |-> 2018 + sid,
     price    |-> 110 * sid,
     km       |-> 1000 * sid,
     version  |-> "",
     features |-> IF sid % 2 = 1 THEN {"bluetooth"} ELSE {}]

\* " ".join([make, model, version, year, f"{km}km", features...]).strip()
SearchText(v) == <<v.make, v.model, v.version, v.year, v.km, v.features>>

\* Document(page_content=search_text, metadata=...): the feature_<name> entries of
\* the flattened metadata are kept together as feature_flags; there is no
\* "features" entry.
Document(v) ==
    [page_content |-> SearchText(v),
     metadata |-> [stock_id |-> v.stock_id, make |-> v.make, model |-> v.model,
                   year |-> v.year, price |-> v.price, km |-> v.km,
                   version |-> v.version, feature_flags |-> v.features]]

FuzzyMetadata(v) ==
    [stock_id |-> v.stock_id, text |-> SearchText(v), make |-> v.make, model |-> v.model]

Texts == {SearchText(Vehicle(s)) : s \in StockIds}

\* The documents _prepare_documents returns for the rows of the table.
_prepare_documents(rows) == [i \in DOMAIN rows |-> Document(Vehicle(rows[i]))]

PreparedCorpus(rows) == [i \in DOMAIN rows |-> SearchText(Vehicle(rows[i]))]

PreparedMetadata(rows) == [i \in DOMAIN rows |-> FuzzyMetadata(Vehicle(rows[i]))]

-----------------------------------------------------------------------------
(* Score fusion *)

WeightVector == 2
WeightBm25 == 1
WeightFuzzy == 1
WeightUnit == 4

\* dict.get(key, default)
Get(d, key, default) == IF key \in DOMAIN d THEN d[key] ELSE default

\* Mutant: equal scores normalise to 0.0 instead of 1.0.
NormalizeEqualToZero(scores) ==
    IF scores = <<>> THEN <<>>
    ELSE LET min_score == SetMin(Range(scores))
             max_score == SetMax(Range(scores))
         IN  IF max_score = min_score
             THEN [i \in DOMAIN scores |-> 0]
             ELSE [i \in DOMAIN scores |->
                      ((scores[i] - min_score) * Unit) \div (max_score - min_score)]

_normalize_scores(scores) ==
    IF scores = <<>> THEN <<>>
    ELSE LET min_score == SetMin(Range(scores))
             max_score == SetMax(Range(scores))
         IN  IF max_score = min_score
             THEN [i \in DOMAIN scores |-> Unit]
             ELSE [i \in DOMAIN scores |->
                      ((scores[i] - min_score) * Unit) \div (max_score - min_score)]

\* Position of stock_id among the keys of the combined_scores dict, 0 if absent.
KeyIndex(combined, stock_id) ==
    IF \E i \in DOMAIN combined : combined[i].vehicle.metadata.stock_id = stock_id
    THEN CHOOSE i \in DOMAIN combined : combined[i].vehicle.metadata.stock_id = stock_id
    ELSE 0

\* Mutant of SetItem: the entry is added without looking for its key.
AppendItem(combined, entry) == Append(combined, entry)

\* combined_scores[stock_id] = entry: a new key goes last, a known key keeps its place.
SetItem(combined, entry) ==
    LET j == KeyIndex(combined, entry.vehicle.metadata.stock_id)
    IN  IF j = 0 THEN Append(combined, entry) ELSE [combined EXCEPT ![j] = entry]

NewEntry(doc, v, b, f) ==
    [vehicle |-> doc, vector_score |-> v, bm25_score |-> b, fuzzy_score |-> f,
     combined_score |-> 0]

RECURSIVE ProcessVector(_, _, _, _)
ProcessVector(combined, vector_results, normalized_vector, i) ==
    IF i > Len(vector_results) THEN combined
    ELSE ProcessVector(
            SetItem(combined, NewEntry(vector_results[i][1], normalized_vector[i], 0, 0)),
            vector_results, normalized_vector, i + 1)

RECURSIVE ProcessBm25(_, _, _, _)
ProcessBm25(combined, bm25_results, normalized_bm25, i) ==
    IF i > Len(bm25_results) THEN combined
    ELSE LET doc == bm25_results[i]
             j == KeyIndex(combined, doc.metadata.stock_id)
         IN  ProcessBm25(
                IF j # 0
                THEN [combined EXCEPT ![j].bm25_score = normalized_bm25[i]]
                ELSE Append(combined, NewEntry(doc, 0, normalized_bm25[i], 0)),
                bm25_results, normalized_bm25, i + 1)

RECURSIVE ProcessFuzzy(_, _, _, _)
ProcessFuzzy(combined, fuzzy_results, normalized_fuzzy, i) ==
    IF i > Len(fuzzy_results) THEN combined
    ELSE LET text == fuzzy_results[i][1]
             metadata == fuzzy_results[i][3]
             j == KeyIndex(combined, metadata.stock_id)
         IN  ProcessFuzzy(
                IF j # 0
                THEN [combined EXCEPT ![j].fuzzy_score = normalized_fuzzy[i]]
                ELSE Append(combined,
                            NewEntry([page_content |-> text, metadata |-> metadata],
                                     0, 0, normalized_fuzzy[i])),
                fuzzy_results, normalized_fuzzy, i + 1)

WeightedSum(r) ==
    WeightVector * r.vector_score + WeightBm25 * r.bm25_score + WeightFuzzy * r.fuzzy_score

\* vector_results: <<doc, score>>; bm25_results: doc; fuzzy_results: <<text, score, metadata>>
_combine_scores(vector_results, bm25_results, fuzzy_results) ==
    LET vector_scores == [i \in DOMAIN vector_results |-> vector_results[i][2]]
        bm25_scores   == [i \in DOMAIN bm25_results |->
                             Get(bm25_results[i].metadata, "score", 0)]
        fuzzy_scores  == [i \in DOMAIN fuzzy_results |-> fuzzy_results[i][2]]
        c1 == ProcessVector(<<>>, vector_results, _normalize_scores(vector_scores), 1)
        c2 == ProcessBm25(c1, bm25_results, _normalize_scores(bm25_scores), 1)
        c3 == ProcessFuzzy(c2, fuzzy_results, _normalize_scores(fuzzy_scores), 1)
    IN  [i \in DOMAIN c3 |-> [c3[i] EXCEPT !.combined_score = WeightedSum(c3[i])]]

\* Mutant: the first k candidates in merge order, not sorted.
FirstKUnsorted(combined_results, k) == Take(combined_results, k)

\* sorted(combined_results, key=combined_score, reverse=True)[:k]
RankTopK(combined_results, k) ==
    LET pairs == [i \in DOMAIN combined_results |->
                     <<combined_results[i], combined_results[i].combined_score>>]
        sorted_results == SortedDesc(pairs)
    IN  Take([i \in DOMAIN sorted_results |-> sorted_results[i][1]], k)

\* The end of search(): combine the three result lists, rerank, cut to k.
Rerank(vector_results, bm25_results, fuzzy_results, k) ==
    RankTopK(_combine_scores(vector_results, bm25_results, fuzzy_results), k)

-----------------------------------------------------------------------------
(* VehicleSearchEngine *)

BM25_K == 10

\* The embedding, BM25 and rapidfuzz providers are outside the repository. A
\* query is known by the raw score each of them gives it against each indexed
\* text: per method it is nearest to one vehicle, and its score falls by one for
\* every step away from that vehicle.
Queries == [vec : StockIds, bm25 : StockIds, fuzz : StockIds]

TextStockId(text) == CHOOSE s \in StockIds : SearchText(Vehicle(s)) = text

Abs(x) == IF x < 0 THEN -x ELSE x

ProviderScore(target, text) ==
    LET fall == Abs(TextStockId(text) - target)
    IN  IF fall >= MaxScore THEN 0 ELSE MaxScore - fall

VecScore(q, text) == ProviderScore(q.vec, text)
Bm25Score(q, text) == ProviderScore(q.bm25, text)
FuzzScore(q, text) == ProviderScore(q.fuzz, text)

Ks == 1..MaxK

\* The engine object with the collection its vector store reads.
Engine ==
    [vector_store |-> vector_store, bm25_retriever |-> bm25_retriever,
     vehicles_corpus |-> vehicles_corpus, vehicles_metadata |-> vehicles_metadata,
     chroma_dir |-> chroma_dir, built |-> built]

\* [(doc, 1 - score) for doc, score in similarity_search_with_score(query, k=n)]:
\* the n nearest documents of the persisted collection, nearest first.
VectorResults(e, q, n) ==
    LET docs == e.chroma_dir.docs
    IN  Take(SortedDesc([i \in DOMAIN docs |-> <<docs[i], VecScore(q, docs[i].page_content)>>]), n)

\* bm25_retriever.invoke(query): the retriever's k best documents, best first.
Bm25Results(e, q) ==
    LET docs == e.bm25_retriever.docs
        ranked == SortedDesc([i \in DOMAIN docs |-> <<docs[i], Bm25Score(q, docs[i].page_content)>>])
    IN  Take([i \in DOMAIN ranked |-> ranked[i][1]], e.bm25_retriever.k)

\* process.extract(query, corpus, scorer=token_set_ratio, limit=n): <<text, score, index>>
FuzzyMatches(e, q, n) ==
    Take(SortedDesc([i \in DOMAIN e.vehicles_corpus |->
                        <<e.vehicles_corpus[i], FuzzScore(q, e.vehicles_corpus[i]), i - 1>>]), n)

\* [(text, score, self.vehicles_metadata[i]) for i, (text, score, _) in enumerate(...)]
FuzzyResults(e, q, n) ==
    LET fuzzy_matches == FuzzyMatches(e, q, n)
    IN  [i \in DOMAIN fuzzy_matches |->
            <<fuzzy_matches[i][1], fuzzy_matches[i][2], e.vehicles_metadata[i]>>]

NotBuiltError == [status |-> "raised", error |-> "Search index not built. Call build_index() first."]

Returned(value) == [status |-> "returned", value |-> value]

\* Mutant: only the vector store is required for a search.
SearchWithoutLexicalCheck(e, q, k) ==
    IF e.vector_store = None
    THEN NotBuiltError
    ELSE Returned(Rerank(VectorResults(e, q, k * 2),
                         IF e.bm25_retriever # None THEN Bm25Results(e, q) ELSE <<>>,
                         IF e.vehicles_corpus # <<>> THEN FuzzyResults(e, q, k * 2) ELSE <<>>,
                         k))

search(e, q, k) ==
    IF e.vector_store = None \/ e.bm25_retriever = None
    THEN NotBuiltError
    ELSE Returned(Rerank(IF e.vector_store # None THEN VectorResults(e, q, k * 2) ELSE <<>>,
                         IF e.bm25_retriever # None THEN Bm25Results(e, q) ELSE <<>>,
                         IF e.vehicles_corpus # <<>> THEN FuzzyResults(e, q, k * 2) ELSE <<>>,
                         k))

\* __init__ with _load_existing_index: a persisted collection is opened when the
\* directory exists and opening it does not fail.
NewEngine(loads) ==
    /\ vector_store' = IF chroma_dir.exists /\ loads THEN Chroma ELSE None
    /\ bm25_retriever' = None
    /\ vehicles_corpus' = <<>>
    /\ vehicles_metadata' = <<>>
    /\ built' = FALSE

\* build_index, with the appends _prepare_documents makes to the fuzzy corpus;
\* Chroma.from_documents adds the documents to the collection of persist_directory.
build_index(e, rows) ==
    LET documents == _prepare_documents(rows)
        prepared == [e EXCEPT !.vehicles_corpus = @ \o PreparedCorpus(rows),
                              !.vehicles_metadata = @ \o PreparedMetadata(rows)]
    IN  IF documents = <<>>
        THEN prepared
        ELSE [prepared EXCEPT
                 !.chroma_dir = [exists |-> TRUE, docs |-> @.docs \o documents],
                 !.vector_store = Chroma,
                 !.bm25_retriever = [type |-> "BM25Retriever", docs |-> documents, k |-> BM25_K],
                 !.built = TRUE]

\* The engine object and its collection become e.
SetEngine(e) ==
    /\ vector_store' = e.vector_store
    /\ bm25_retriever' = e.bm25_retriever
    /\ vehicles_corpus' = e.vehicles_corpus
    /\ vehicles_metadata' = e.vehicles_metadata
    /\ chroma_dir' = e.chroma_dir
    /\ built' = e.built

CanBuild == Len(vehicles_corpus) + Len(store) <= MaxCorpus
              /\ Len(chroma_dir.docs) + Len(store) <= MaxCorpus

-----------------------------------------------------------------------------
(* The engine driven directly: inventory changes, construction, builds, searches *)

NoCall == [op |-> "none"]

\* select(Vehicle) lists the rows in primary-key order.
InsertRow(rows, sid) ==
    SelectSeq([i \in 1..MaxVehicles |-> i], LAMBDA x : x = sid \/ x \in Range(rows))

AddVehicle(sid) ==
    /\ sid \notin Range(store)
    /\ store' = InsertRow(store, sid)
    /\ call' = NoCall
    /\ UNCHANGED <<chroma_dir, engineVars, _initialized, built>>

RemoveVehicle(sid) ==
    /\ sid \in Range(store)
    /\ store' = SelectSeq(store, LAMBDA x : x # sid)
    /\ call' = NoCall
    /\ UNCHANGED <<chroma_dir, engineVars, _initialized, built>>

Construct ==
    /\ \E loads \in BOOLEAN : NewEngine(loads)
    /\ call' = [op |-> "__init__"]
    /\ UNCHANGED <<store, chroma_dir, _initialized>>

BuildIndex ==
    /\ CanBuild
    /\ SetEngine(build_index(Engine, store))
    /\ call' = [op |-> "build_index", rows |-> store]
    /\ UNCHANGED <<store, _initialized>>

\* search() changes nothing of the engine, so a search right after a search
\* reaches no state a first search does not reach: one search per engine state.
Search ==
    /\ call.op # "search"
    /\ \E q \in Queries, k \in Ks :
          call' = [op |-> "search", k |-> k, result |-> search(Engine, q, k)]
    /\ UNCHANGED <<store, chroma_dir, engineVars, _initialized, built>>

Init ==
    /\ store = <<>>
    /\ chroma_dir = [exists |-> FALSE, docs |-> <<>>]
    /\ vector_store = None
    /\ bm25_retriever = None
    /\ vehicles_corpus = <<>>
    /\ vehicles_metadata = <<>>
    /\ _initialized = FALSE
    /\ built = FALSE
    /\ call = NoCall

Next ==
    \/ \E sid \in StockIds : AddVehicle(sid)
    \/ \E sid \in StockIds : RemoveVehicle(sid)
    \/ Construct
    \/ BuildIndex
    \/ Search

Spec == Init /\ [][Next]_vars

-----------------------------------------------------------------------------
(* Score fusion on its own: _combine_scores and the rerank at the end of      *)
(* search(), applied to result lists of any shape                             *)

\* The stock ids of a result list follow one of these patterns: all entries
\* name vehicle a, or the entries name a, a+1, ... cyclically.
IdPattern(len, a, cyclic) ==
    [i \in 1..len |-> IF cyclic THEN ((a + i - 2) % MaxFusionIds) + 1 ELSE a]

IdLists(len) == {IdPattern(len, a, c) : a \in FusionIds, c \in BOOLEAN}

ScoreLists == UNION {[1..len -> Scores] : len \in 0..MaxLen}

ScoredDocument(sid, score) ==
    [page_content |-> SearchText(Vehicle(sid)),
     metadata |-> [stock_id |-> Vehicle(sid).stock_id, make |-> Vehicle(sid).make,
                   model |-> Vehicle(sid).model, score |-> score]]

VectorLists ==
    UNION {{[i \in DOMAIN sc |-> <<Document(Vehicle(ids[i])), sc[i]>>] :
               ids \in IdLists(Len(sc))} : sc \in ScoreLists}

Bm25Lists ==
    UNION {{[i \in DOMAIN sc |-> ScoredDocument(ids[i], sc[i])] :
               ids \in IdLists(Len(sc))} : sc \in ScoreLists}

FuzzyLists ==
    UNION {{[i \in DOMAIN sc |-> <<SearchText(Vehicle(ids[i])), sc[i],
                                   FuzzyMetadata(Vehicle(ids[i]))>>] :
               ids \in IdLists(Len(sc))} : sc \in ScoreLists}

\* The lists the other two methods return while one method's list is varied.
FewVectorLists ==
    {<<>>, <<<<Document(Vehicle(1)), MaxScore>>>>,
     <<<<Document(Vehicle(MaxFusionIds)), 0>>, <<Document(Vehicle(1)), 1>>>>}

FewBm25Lists ==
    {<<>>, <<Document(Vehicle(1))>>,
     <<ScoredDocument(MaxFusionIds, 1), ScoredDocument(1, 0)>>}

FewFuzzyLists ==
    {<<>>, <<<<SearchText(Vehicle(1)), MaxScore, FuzzyMetadata(Vehicle(1))>>>>,
     <<<<SearchText(Vehicle(MaxFusionIds)), 1, FuzzyMetadata(Vehicle(MaxFusionIds))>>,
       <<SearchText(Vehicle(1)), 0, FuzzyMetadata(Vehicle(1))>>>>}

FusionInputs ==
    (VectorLists \X FewBm25Lists \X FewFuzzyLists)
    \cup (FewVectorLists \X Bm25Lists \X FewFuzzyLists)
    \cup (FewVectorLists \X FewBm25Lists \X FuzzyLists)

InitFusion ==
    /\ store = <<>>
    /\ chroma_dir = [exists |-> FALSE, docs |-> <<>>]
    /\ vector_store = None
    /\ bm25_retriever = None
    /\ vehicles_corpus = <<>>
    /\ vehicles_metadata = <<>>
    /\ _initialized = FALSE
    /\ built = FALSE
    /\ \E in \in FusionInputs :
          call = [op |-> "results", vector_results |-> in[1],
                  bm25_results |-> in[2], fuzzy_results |-> in[3]]

CombineAndRerank ==
    /\ call.op = "results"
    /\ \E k \in Ks :
          call' = [op |-> "rerank",
                   vector_results |-> call.vector_results,
                   bm25_results |-> call.bm25_results,
                   fuzzy_results |-> call.fuzzy_results,
                   k |-> k,
                   combined |-> _combine_scores(call.vector_results, call.bm25_results,
                                                call.fuzzy_results),
                   result |-> Rerank(call.vector_results, call.bm25_results,
                                     call.fuzzy_results, k)]
    /\ UNCHANGED <<store, chroma_dir, engineVars, _initialized, built>>

NextFusion == CombineAndRerank

SpecFusion == InitFusion /\ [][NextFusion]_vars

-----------------------------------------------------------------------------
(* Claims about the engine *)

SearchReturned == call.op = "search" /\ call.result.status = "returned"

\* C1: a search on an instance on which build_index has not built both the
\* vector index and the lexical index raises the "index not built" error and
\* returns no list.
C1_NotBuiltRaises ==
    (call.op = "search" /\ ~built) => call.result = NotBuiltError

\* C1 witness: a search that raised on a fresh engine that had loaded a
\* persisted vector store, with vehicles in the table.
C1_Witness ==
    /\ call.op = "search" /\ ~built
    /\ vector_store = Chroma
    /\ store # <<>>
    /\ call.result.status = "raised"

\* C2 (as claimed): after a build the fuzzy corpus and the metadata list hold
\* exactly one entry per vehicle of the inventory that build read, so a second
\* build of the same inventory leaves them as the first one did.
C2_OneEntryPerVehicle ==
    call.op = "build_index" =>
        /\ vehicles_corpus = PreparedCorpus(call.rows)
        /\ vehicles_metadata = PreparedMetadata(call.rows)

-----------------------------------------------------------------------------
(* Claims about score fusion *)

VectorIds(rs) == [i \in DOMAIN rs |-> rs[i][1].metadata.stock_id]
VectorRaw(rs) == [i \in DOMAIN rs |-> rs[i][2]]
Bm25Ids(rs) == [i \in DOMAIN rs |-> rs[i].metadata.stock_id]
Bm25Raw(rs) == [i \in DOMAIN rs |-> IF "score" \in DOMAIN rs[i].metadata
                                    THEN rs[i].metadata.score ELSE 0]
FuzzyIds(rs) == [i \in DOMAIN rs |-> rs[i][3].stock_id]
FuzzyRaw(rs) == [i \in DOMAIN rs |-> rs[i][2]]

\* value (in 1/Unit) is the min-max normalisation of raw[i] over raw
IsMinMaxOf(raw, i, value) ==
    LET lo == SetMin(Range(raw))
        hi == SetMax(Range(raw))
    IN  /\ 0 <= value /\ value <= Unit
        /\ IF hi = lo THEN value = Unit
           ELSE value * (hi - lo) = (raw[i] - lo) * Unit

\* value is what the method's list gives stock id sid: the normalised score of
\* its entry for sid, 0 when the list has none
IsMethodScore(ids, raw, sid, value) ==
    LET hits == {i \in DOMAIN ids : ids[i] = sid}
    IN  IF hits = {} THEN value = 0
        ELSE IsMinMaxOf(raw, SetMax(hits), value)

\* C3: in the output of _combine_scores each component score of a candidate is
\* the min-max normalisation (in [0,1]) of the raw score the method returned
\* for it, and exactly 0 when the method did not return the candidate.
C3_ComponentsNormalised ==
    call.op = "rerank" =>
        \A c \in Range(call.combined) :
            LET sid == c.vehicle.metadata.stock_id
            IN  /\ IsMethodScore(VectorIds(call.vector_results),
                                 VectorRaw(call.vector_results), sid, c.vector_score)
                /\ IsMethodScore(Bm25Ids(call.bm25_results),
                                 Bm25Raw(call.bm25_results), sid, c.bm25_score)
                /\ IsMethodScore(FuzzyIds(call.fuzzy_results),
                                 FuzzyRaw(call.fuzzy_results), sid, c.fuzzy_score)

\* C3 witness: one method returned nothing, another returned three different
\* raw scores, and some candidate was missed by a method that returned others.
C3_Witness ==
    /\ call.op = "rerank"
    /\ call.fuzzy_results = <<>>
    /\ call.bm25_results # <<>>
    /\ \E c \in Range(call.combined) : 0 < c.vector_score /\ c.vector_score < Unit
    /\ \E c \in Range(call.combined) : c.bm25_score = 0 /\ c.fuzzy_score = 0

PositionIn(combined, c) == CHOOSE i \in DOMAIN combined : combined[i] = c

\* C4: every returned candidate has combined_score = 0.5*vector + 0.25*bm25 +
\* 0.25*fuzzy, within [0,1]; the list is non-increasing in combined_score,
\* equal scores keep their merge order, and it has at most k entries.
C4_CombinedAndRanked ==
    call.op = "rerank" =>
        LET r == call.result
        IN  /\ Len(r) <= call.k
            /\ \A i \in DOMAIN r :
                  /\ r[i] \in Range(call.combined)
                  /\ r[i].combined_score =
                        2 * r[i].vector_score + r[i].bm25_score + r[i].fuzzy_score
                  /\ 0 <= r[i].combined_score
                  /\ r[i].combined_score <= 4 * Unit
            /\ \A i, j \in DOMAIN r :
                  i < j =>
                     /\ r[i].combined_score >= r[j].combined_score
                     /\ r[i].combined_score = r[j].combined_score =>
                           PositionIn(call.combined, r[i]) < PositionIn(call.combined, r[j])
            /\ \A c \in Range(call.combined) :
                  c \notin Range(r) =>
                     /\ Len(r) = call.k
                     /\ \A i \in DOMAIN r : r[i].combined_score >= c.combined_score

\* C4 witness: a rerank that cut the list to k, with two returned candidates
\* of equal combined score and one of a lower score.
C4_Witness ==
    /\ call.op = "rerank"
    /\ Len(call.combined) > call.k
    /\ Len(call.result) = call.k
    /\ \E i, j \in DOMAIN call.result :
          i < j /\ call.result[i].combined_score = call.result[j].combined_score
    /\ \E c \in Range(call.combined) :
          c.combined_score < call.result[1].combined_score
             /\ c.combined_score > 0 /\ c.combined_score < 4 * Unit

-----------------------------------------------------------------------------
(* VehicleSearchService: search_vehicles over the engine                      *)

\* Strings are read character by character; CharAt is s[i - 1] of Python.
CharAt(s, i) == SubSeq(s, i, i)

UpperLetters == "ABCDEFGHIJKLMNOPQRSTUVWXYZ"
LowerLetters == "abcdefghijklmnopqrstuvwxyz"
Digits == "0123456789"

IndexIn(alphabet, c) ==
    LET hits == {i \in 1..Len(alphabet) : CharAt(alphabet, i) = c}
    IN  IF hits = {} THEN 0 ELSE SetMin(hits)

\* The lower-case letter of every upper-case letter.
LowerOf ==
    [c \in {CharAt(UpperLetters, i) : i \in 1..Len(UpperLetters)} |->
        CharAt(LowerLetters, IndexIn(UpperLetters, c))]

LowerChar(c) == IF c \in DOMAIN LowerOf THEN LowerOf[c] ELSE c

\* str.lower()
RECURSIVE Lower(_)
Lower(s) ==
    IF s = "" THEN ""
    ELSE Lower(SubSeq(s, 1, Len(s) - 1)) \o LowerChar(CharAt(s, Len(s)))

\* \s of the regular expressions and the whitespace str.strip() removes
IsSpace(c) == c = " "

\* str.strip()
RECURSIVE Strip(_)
Strip(s) ==
    IF s = "" THEN ""
    ELSE IF IsSpace(CharAt(s, 1)) THEN Strip(SubSeq(s, 2, Len(s)))
    ELSE IF IsSpace(CharAt(s, Len(s))) THEN Strip(SubSeq(s, 1, Len(s) - 1))
    ELSE s

\* An optional argument: <<>> is None, <<x>> is the value x.
Given(opt) == opt # <<>>

\* Python truth of an optional string: None and "" are false.
TruthyStr(opt) == opt # <<>> /\ opt[1] # ""

MinPrices == {<<>>, <<150>>}
MaxPrices == {<<>>, <<250>>}
MakeFilters == {<<>>, <<"">>, <<"TOYOTA">>}
ModelFilters == {<<>>, <<"civic">>}

Filters ==
    [min_price : MinPrices, max_price : MaxPrices, make : MakeFilters, model : ModelFilters]

\* The embedding and BM25 providers agree on the vehicle a query is nearest to.
ServiceQueries == {q \in Queries : q.bm25 = q.vec}

KeyError(key) == [status |-> "raised", error |-> "KeyError", key |-> key]

FormattedKeys == <<"stock_id", "make", "model", "year", "price", "km">>

\* The dict literal of lines 85-101; a missing key raises KeyError.
FormatResult(result) ==
    LET metadata == result.vehicle.metadata
        missing == {i \in DOMAIN FormattedKeys : FormattedKeys[i] \notin DOMAIN metadata}
    IN  IF missing # {}
        THEN KeyError(FormattedKeys[SetMin(missing)])
        ELSE Returned(
               [stock_id |-> metadata.stock_id, make |-> metadata.make,
                model |-> metadata.model, year |-> metadata.year,
                version |-> Get(metadata, "version", None),
                price |-> metadata.price, km |-> metadata.km,
                features |-> Get(metadata, "features", <<>>),
                search_text |-> result.vehicle.page_content,
                relevance_score |-> result.combined_score,
                search_breakdown |-> [vector_score |-> result.vector_score,
                                      bm25_score |-> result.bm25_score,
                                      fuzzy_score |-> result.fuzzy_score]])

\* The four `continue` conditions of the filter loop.
Skipped(metadata, f) ==
    \/ Given(f.min_price) /\ Get(metadata, "price", 0) < f.min_price[1]
    \/ Given(f.max_price) /\ Get(metadata, "price", 0) > f.max_price[1]
    \/ TruthyStr(f.make) /\ Lower(Get(metadata, "make", "")) # Lower(f.make[1])
    \/ TruthyStr(f.model) /\ Lower(Get(metadata, "model", "")) # Lower(f.model[1])

\* Mutant: the filter loop without its break.
RECURSIVE FilterWithoutBreak(_, _, _, _, _)
FilterWithoutBreak(results, i, filtered_results, max_results, f) ==
    IF i > Len(results) THEN Returned(filtered_results)
    ELSE IF Skipped(results[i].vehicle.metadata, f)
         THEN FilterWithoutBreak(results, i + 1, filtered_results, max_results, f)
         ELSE LET formatted_result == FormatResult(results[i])
              IN  IF formatted_result.status = "raised" THEN formatted_result
                  ELSE FilterWithoutBreak(results, i + 1,
                          Append(filtered_results, formatted_result.value), max_results, f)

\* for result in results: ... (lines 65-108)
RECURSIVE FilterResults(_, _, _, _, _)
FilterResults(results, i, filtered_results, max_results, f) ==
    IF i > Len(results) THEN Returned(filtered_results)
    ELSE IF Skipped(results[i].vehicle.metadata, f)
         THEN FilterResults(results, i + 1, filtered_results, max_results, f)
         ELSE LET formatted_result == FormatResult(results[i])
              IN  IF formatted_result.status = "raised" THEN formatted_result
                  ELSE LET appended == Append(filtered_results, formatted_result.value)
                       IN  IF Len(appended) >= max_results
                           THEN Returned(appended)
                           ELSE FilterResults(results, i + 1, appended, max_results, f)

\* initialize(): build the index unless this service has done so.
initialize(e, initialized, rows) ==
    IF ~initialized THEN build_index(e, rows) ELSE e

Initialize ==
    /\ _initialized \/ CanBuild
    /\ SetEngine(initialize(Engine, _initialized, store))
    /\ _initialized' = TRUE
    /\ call' = [op |-> "initialize"]
    /\ UNCHANGED store

\* search_vehicles: initialize if needed, search with k = max_results * 2,
\* filter and format. A search right after a search meets the same engine.
SearchVehicles ==
    /\ call.op # "search_vehicles"
    /\ _initialized \/ CanBuild
    /\ \E query \in ServiceQueries, max_results \in Ks :
          LET e == initialize(Engine, _initialized, store)
              results == search(e, query, max_results * 2)
          IN  /\ SetEngine(e)
              /\ _initialized' = TRUE
              /\ \E f \in Filters : call' = [op |-> "search_vehicles", max_results |-> max_results,
                          filters |-> f, results |-> results,
                          result |-> IF results.status = "raised" THEN results
                                     ELSE FilterResults(results.value, 1, <<>>,
                                                        max_results, f)]
    /\ UNCHANGED store

NextService ==
    \/ \E sid \in StockIds : AddVehicle(sid)
    \/ \E sid \in StockIds : RemoveVehicle(sid)
    \/ Initialize
    \/ SearchVehicles

SpecService == Init /\ [][NextService]_vars

-----------------------------------------------------------------------------
(* Claims about the search service *)

ServiceReturned == call.op = "search_vehicles" /\ call.result.status = "returned"

\* the candidate of the engine's list passes every filter that was given
PassesFilters(c, f) ==
    LET m == c.vehicle.metadata
    IN  /\ Given(f.min_price) => m.price >= f.min_price[1]
        /\ Given(f.max_price) => m.price <= f.max_price[1]
        /\ TruthyStr(f.make) => Lower(m.make) = Lower(f.make[1])
        /\ TruthyStr(f.model) => Lower(m.model) = Lower(f.model[1])

\* C5: the output of search_vehicles is a subsequence of the list engine.search
\* returned, in the same relative order; every returned vehicle satisfies
\* every filter that was given; and it is the first max_results survivors, so
\* collection stops once max_results survivors are collected.
C5_PostFilter ==
    ServiceReturned =>
        LET out == call.result.value
            ranked == call.results.value
            f == call.filters
            survivors == SelectSeq(ranked, LAMBDA c : PassesFilters(c, f))
        IN  /\ Len(out) <= call.max_results
            /\ Len(out) = IF Len(survivors) < call.max_results
                          THEN Len(survivors) ELSE call.max_results
            /\ \A i \in DOMAIN out :
                  /\ out[i].stock_id = survivors[i].vehicle.metadata.stock_id
                  /\ out[i].relevance_score = survivors[i].combined_score
                  /\ Given(f.min_price) => out[i].price >= f.min_price[1]
                  /\ Given(f.max_price) => out[i].price <= f.max_price[1]
                  /\ TruthyStr(f.make) => Lower(out[i].make) = Lower(f.make[1])
                  /\ TruthyStr(f.model) => Lower(out[i].model) = Lower(f.model[1])

\* C5 witness: a filtered search whose best-ranked candidate was filtered out
\* and a lower-ranked one returned.
C5_Witness ==
    /\ ServiceReturned
    /\ Given(call.filters.min_price)
    /\ call.result.value # <<>>
    /\ ~PassesFilters(call.results.value[1], call.filters)

\* A search that stopped at max_results with a further survivor in the list.
C5_StoppedEarly ==
    /\ ServiceReturned
    /\ Len(call.result.value) = call.max_results
    /\ Len(call.results.value) > call.max_results
    /\ \A c \in Range(call.results.value) : PassesFilters(c, call.filters)

-----------------------------------------------------------------------------
(* Fuzzy matching of makes and models (tools/catalog_search.py) over the     *)
(* DAO's distinct-value queries                                               *)

MaxRows == 2

DefaultThreshold == 80
FullScore == 100
CatalogLimit == 1000

\* The first occurrence of every value of a list, in list order.
RECURSIVE Distinct(_)
Distinct(values) ==
    IF values = <<>> THEN <<>>
    ELSE LET front == Distinct(SubSeq(values, 1, Len(values) - 1))
             last == values[Len(values)]
         IN  IF last \in Range(front) THEN front ELSE Append(front, last)

\* select(distinct(Vehicle.make)).limit(limit)
get_makes(rows, limit) ==
    Take(Distinct([i \in DOMAIN rows |-> rows[i].make]), limit)

\* select(distinct(Vehicle.model)).limit(limit)
get_models(rows, limit) ==
    Take(Distinct([i \in DOMAIN rows |-> rows[i].model]), limit)

\* select(distinct(Vehicle.model)).where(Vehicle.make == make).limit(limit)
get_models_by_make(rows, make, limit) ==
    get_models(SelectSeq(rows, LAMBDA r : r.make = make), limit)

\* The similarity rapidfuzz gives the query against each choice is known only
\* as a table: identical strings score 100, other pairs score below 100.
ScoreLevels == {0, DefaultThreshold - 1, DefaultThreshold, DefaultThreshold + 10}

ScoreTables(query, choices) ==
    {t \in [Range(choices) -> ScoreLevels \cup {FullScore}] :
        \A c \in Range(choices) : t[c] = FullScore <=> c = query}

\* Mutant: a choice must score above the cutoff.
RECURSIVE ExtractOneAboveCutoff(_, _, _, _, _)
ExtractOneAboveCutoff(choices, scores, score_cutoff, i, best) ==
    IF i > Len(choices) THEN best
    ELSE LET score == scores[choices[i]]
         IN  IF score > score_cutoff /\ (best = <<>> \/ score > best[2])
             THEN ExtractOneAboveCutoff(choices, scores, score_cutoff, i + 1,
                                        <<choices[i], score, i - 1>>)
             ELSE ExtractOneAboveCutoff(choices, scores, score_cutoff, i + 1, best)

\* rapidfuzz.process.extractOne(query, choices, score_cutoff=...): the first
\* choice of the highest score, if that score reaches the cutoff; <<>> is None.
RECURSIVE extractOne(_, _, _, _, _)
extractOne(choices, scores, score_cutoff, i, best) ==
    IF i > Len(choices) THEN best
    ELSE LET score == scores[choices[i]]
         IN  IF score >= score_cutoff /\ (best = <<>> \/ score > best[2])
             THEN extractOne(choices, scores, score_cutoff, i + 1,
                             <<choices[i], score, i - 1>>)
             ELSE extractOne(choices, scores, score_cutoff, i + 1, best)

\* for value in all_values: if value.lower() == best_match[0]: return value
FirstWithLower(all_values, lowered) ==
    LET hits == {i \in DOMAIN all_values : Lower(all_values[i]) = lowered}
    IN  IF hits = {} THEN <<>> ELSE <<all_values[SetMin(hits)]>>

\* The query and the choices handed to extractOne.
FuzzyQuery(input) == Strip(Lower(input))
FuzzyChoices(all_values) == [i \in DOMAIN all_values |-> Lower(all_values[i])]

\* The body shared by fuzzy_search_make and fuzzy_search_model once the
\* catalog is fetched; scores is rapidfuzz's table for this query. The result
\* is <<value>>, or <<>> for None.
FuzzyMatch(all_values, input, scores, threshold) ==
    IF all_values = <<>> THEN <<>>
    ELSE LET best_match == extractOne(FuzzyChoices(all_values), scores, threshold, 1, <<>>)
         IN  IF best_match # <<>> THEN FirstWithLower(all_values, best_match[1]) ELSE <<>>

fuzzy_search_make(rows, make_input, scores, threshold) ==
    FuzzyMatch(get_makes(rows, CatalogLimit), make_input, scores, threshold)

\* make is <<>> for None
ModelCatalog(rows, make) ==
    IF TruthyStr(make) THEN get_models_by_make(rows, make[1], CatalogLimit)
    ELSE get_models(rows, CatalogLimit)

fuzzy_search_model(rows, model_input, make, scores, threshold) ==
    FuzzyMatch(ModelCatalog(rows, make), model_input, scores, threshold)

CatalogMakes == {"BMW", "bmw", "Toyota"}
CatalogModels == {"X5", "x5", "Corolla"}
MakeInputs == {" BMW ", "bmw", "BMW", "Toyota", "toyta"}
ModelInputs == {"x5", "X5", "Corolla", "corola"}

\* The make and model columns of the vehicle table, in table order.
CatalogRows ==
    UNION {[1..n -> [make : CatalogMakes, model : CatalogModels]] : n \in 0..MaxRows}

InitFuzzy ==
    /\ store = <<>>
    /\ chroma_dir = [exists |-> FALSE, docs |-> <<>>]
    /\ vector_store = None
    /\ bm25_retriever = None
    /\ vehicles_corpus = <<>>
    /\ vehicles_metadata = <<>>
    /\ _initialized = FALSE
    /\ built = FALSE
    /\ \E rows \in CatalogRows : call = [op |-> "catalog", rows |-> rows]

FuzzySearchMake ==
    /\ call.op = "catalog"
    /\ \E make_input \in MakeInputs :
         LET all_makes == get_makes(call.rows, CatalogLimit)
         IN  \E scores \in ScoreTables(FuzzyQuery(make_input), FuzzyChoices(all_makes)) :
                call' = [op |-> "fuzzy_search", input |-> make_input,
                         catalog |-> all_makes, scores |-> scores,
                         threshold |-> DefaultThreshold,
                         result |-> fuzzy_search_make(call.rows, make_input, scores,
                                                      DefaultThreshold)]
    /\ UNCHANGED <<store, chroma_dir, engineVars, _initialized, built>>

FuzzySearchModel ==
    /\ call.op = "catalog"
    /\ \E model_input \in ModelInputs, make \in {<<>>} \cup {<<m>> : m \in CatalogMakes} :
         LET all_models == ModelCatalog(call.rows, make)
         IN  \E scores \in ScoreTables(FuzzyQuery(model_input), FuzzyChoices(all_models)) :
                call' = [op |-> "fuzzy_search", input |-> model_input,
                         catalog |-> all_models, scores |-> scores,
                         threshold |-> DefaultThreshold,
                         result |-> fuzzy_search_model(call.rows, model_input, make,
                                                       scores, DefaultThreshold)]
    /\ UNCHANGED <<store, chroma_dir, engineVars, _initialized, built>>

NextFuzzy ==
    \/ FuzzySearchMake
    \/ FuzzySearchModel

SpecFuzzy == InitFuzzy /\ [][NextFuzzy]_vars

-----------------------------------------------------------------------------
(* Claims about fuzzy matching *)

\* the similarity of catalog entry i to the normalised input
ScoreOf(i) == call.scores[Lower(call.catalog[i])]

\* C7: fuzzy_search_make and fuzzy_search_model return the catalog value of
\* maximum similarity to the lower-cased, stripped input exactly when that
\* maximum is at least the threshold (80 itself matches), the first such value
\* in catalog order on ties, and no match otherwise; an empty catalog gives no
\* match.
C7_BestMatchOrNone ==
    call.op = "fuzzy_search" =>
        LET n == Len(call.catalog)
            top == SetMax({ScoreOf(i) : i \in 1..n})
        IN  IF n = 0 \/ top < call.threshold
            THEN call.result = <<>>
            ELSE \E i \in 1..n :
                    /\ call.result = <<call.catalog[i]>>
                    /\ ScoreOf(i) = top
                    /\ \A j \in 1..(i - 1) : ScoreOf(j) < top

\* C7 witness: two catalog values tie at exactly the threshold and the first
\* of them is returned.
C7_Witness ==
    /\ call.op = "fuzzy_search"
    /\ Len(call.catalog) = 2
    /\ ScoreOf(1) = call.threshold /\ ScoreOf(2) = call.threshold
    /\ call.result = <<call.catalog[1]>>

\* A search of an empty catalog returned no match.
C7_EmptyCatalog ==
    /\ call.op = "fuzzy_search"
    /\ call.catalog = <<>>
    /\ call.result = <<>>

\* C8 (as claimed): searching for a value of the catalog returns that value,
\* also when the catalog holds values that differ from it only in letter case.
C8_Idempotent ==
    (call.op = "fuzzy_search" /\ call.input \in Range(call.catalog))
        => call.result = <<call.input>>

-----------------------------------------------------------------------------
(* catalog_search_impl over the DAO's search_vehicles                         *)

MinResults == 1
MaxResultsLimit == 20

\* The rows of the vehicle table, in primary-key order.
Rows == [i \in DOMAIN store |-> Vehicle(store[i])]

\* Python truth of an optional number: None and 0 are false.
TruthyNum(opt) == opt # <<>> /\ opt[1] # 0

\* db/vehicle_dao.py search_vehicles: each filter is applied under `if value:`.
search_vehicles(rows, make, model, min_year, max_year, min_price, max_price, km_max) ==
    SelectSeq(rows, LAMBDA v :
        /\ TruthyStr(make) => v.make = make[1]
        /\ TruthyStr(model) => v.model = model[1]
        /\ TruthyNum(min_year) => v.year >= min_year[1]
        /\ TruthyNum(max_year) => v.year <= max_year[1]
        /\ TruthyNum(min_price) => v.price >= min_price[1]
        /\ TruthyNum(max_price) => v.price <= max_price[1]
        /\ TruthyNum(km_max) => v.km <= km_max[1])

\* The filters a caller of the DAO gives: each one absent, or a value; the
\* bounds include 0.
DaoFilters ==
    [make : {<<>>, <<"toyota">>}, model : {<<>>, <<"Civic">>},
     min_year : {<<>>, <<2020>>}, max_year : {<<>>, <<0>>, <<2019>>},
     min_price : {<<>>, <<0>>, <<150>>}, max_price : {<<>>, <<0>>, <<150>>},
     km_max : {<<>>, <<0>>, <<1500>>}]

\* One call of the DAO's search_vehicles on the table.
DaoSearch ==
    /\ call.op # "dao_search"
    /\ \E f \in DaoFilters :
          call' = [op |-> "dao_search", filters |-> f, rows |-> Rows,
                   result |-> search_vehicles(Rows, f.make, f.model, f.min_year,
                                              f.max_year, f.min_price, f.max_price,
                                              f.km_max)]
    /\ UNCHANGED <<store, chroma_dir, engineVars, _initialized, built>>

NextDao ==
    \/ \E sid \in StockIds : AddVehicle(sid)
    \/ \E sid \in StockIds : RemoveVehicle(sid)
    \/ DaoSearch

SpecDao == Init /\ [][NextDao]_vars

\* Python orders strings by code point, character by character.
CodePoints == " #$,0123456789ABCDEFGHIJKLMNOPQRSTUVWXYZ_abcdefghijklmnopqrstuvwxyz"

CodePointOf ==
    [c \in {CharAt(CodePoints, i) : i \in 1..Len(CodePoints)} |-> IndexIn(CodePoints, c)]

RECURSIVE StrLess(_, _)
StrLess(a, b) ==
    IF b = "" THEN FALSE
    ELSE IF a = "" THEN TRUE
    ELSE LET ca == CodePointOf[CharAt(a, 1)]
             cb == CodePointOf[CharAt(b, 1)]
         IN  IF ca # cb THEN ca < cb
             ELSE StrLess(SubSeq(a, 2, Len(a)), SubSeq(b, 2, Len(b)))

\* A sort key with the order of the model strings of the table.
StrRank(s) == Cardinality({sid \in StockIds : StrLess(Vehicle(sid).model, s)})

\* list.sort(key=...): stable, ascending
SortedAsc(pairs) ==
    LET negated == [i \in DOMAIN pairs |-> <<pairs[i][1], 0 - pairs[i][2]>>]
        sorted == SortedDesc(negated)
    IN  [i \in DOMAIN sorted |-> <<sorted[i][1], 0 - sorted[i][2]>>]

\* The candidates left in the order the query returned them.
KeepQueryOrder(filtered_candidates, sort_by) == filtered_candidates

\* The sort of lines 233-242.
SortCandidates(filtered_candidates, sort_by) ==
    LET Keyed(Key(_)) == [i \in DOMAIN filtered_candidates |->
                             <<filtered_candidates[i], Key(filtered_candidates[i])>>]
        Unkeyed(pairs) == [i \in DOMAIN pairs |-> pairs[i][1]]
    IN  CASE sort_by = "price_low"  -> Unkeyed(SortedAsc(Keyed(LAMBDA v : v.price)))
          [] sort_by = "price_high" -> Unkeyed(SortedDesc(Keyed(LAMBDA v : v.price)))
          [] sort_by = "year_new"   -> Unkeyed(SortedDesc(Keyed(LAMBDA v : v.year)))
          [] sort_by = "km_low"     -> Unkeyed(SortedAsc(Keyed(LAMBDA v : v.km)))
          [] OTHER                  -> Unkeyed(SortedDesc(Keyed(LAMBDA v : StrRank(v.model))))

\* vehicle.features.get(feature, False) for every requested feature
HasAllFeatures(vehicle, features) ==
    \A i \in DOMAIN features : features[i] \in vehicle.features

VehicleResult(vehicle) ==
    [stock_id |-> vehicle.stock_id, make |-> vehicle.make, model |-> vehicle.model,
     year |-> vehicle.year, version |-> vehicle.version, price |-> vehicle.price,
     km |-> vehicle.km, features |-> vehicle.features]

\* Lines 162-181: the fuzzy-matched make, <<>> when none was asked or found.
MatchedMake(rows, prefs, make_scores) ==
    IF TruthyStr(prefs.make)
    THEN fuzzy_search_make(rows, prefs.make[1], make_scores, DefaultThreshold)
    ELSE <<>>

MatchedModel(rows, prefs, matched_make, model_scores) ==
    IF TruthyStr(prefs.model)
    THEN fuzzy_search_model(rows, prefs.model[1], matched_make, model_scores,
                            DefaultThreshold)
    ELSE <<>>

\* Lines 162-228: the candidates the query returned that have the requested
\* features; none when a make or model was asked and not matched.
FilteredCandidates(rows, prefs, make_scores, model_scores) ==
    LET matched_make == MatchedMake(rows, prefs, make_scores)
        matched_model == MatchedModel(rows, prefs, matched_make, model_scores)
        candidates == search_vehicles(rows, matched_make, matched_model, <<>>, <<>>,
                                      prefs.budget_min, prefs.budget_max, prefs.km_max)
    IN  IF TruthyStr(prefs.make) /\ ~TruthyStr(matched_make) THEN <<>>
        ELSE IF TruthyStr(prefs.model) /\ ~TruthyStr(matched_model) THEN <<>>
        ELSE SelectSeq(candidates, LAMBDA vehicle :
                 prefs.features # <<>> => HasAllFeatures(vehicle, prefs.features))

\* Lines 230-259: sorting, the cut at max_results and the formatting.
FormatCandidates(filtered_candidates, prefs) ==
    LET shown == Take(SortCandidates(filtered_candidates, prefs.sort_by),
                      prefs.max_results)
    IN  Returned([i \in DOMAIN shown |-> VehicleResult(shown[i])])

catalog_search_impl(rows, prefs, make_scores, model_scores) ==
    FormatCandidates(FilteredCandidates(rows, prefs, make_scores, model_scores), prefs)

BudgetMins == {<<>>, <<150>>}
BudgetMaxes == {<<>>, <<0>>, <<50>>, <<250>>}
KmMaxes == {<<>>, <<0>>, <<1500>>}
MakePrefs == {<<>>, <<"Toyota">>}
ModelPrefs == {<<>>, <<"civic">>}
FeaturePrefs == {<<>>, <<"bluetooth">>}
SortKeys == {"relevance", "price_low", "price_high", "year_new", "km_low"}

\* The preferences VehiclePreferences accepts: bounds at least 0, max_results
\* from 1 to 20.
Preferences ==
    [budget_min : BudgetMins, budget_max : BudgetMaxes, make : MakePrefs,
     model : ModelPrefs, km_max : KmMaxes, features : FeaturePrefs,
     sort_by : SortKeys,
     max_results : {k \in Ks : MinResults <= k /\ k <= MaxResultsLimit}]

\* rapidfuzz's tables for the query a fuzzy search makes; <<>> when the search
\* is not made.
TablesFor(asked, all_values) ==
    IF TruthyStr(asked)
    THEN ScoreTables(FuzzyQuery(asked[1]), FuzzyChoices(all_values))
    ELSE {<<>>}

\* The search reads the store and changes nothing, so a search right after a
\* search reaches no state a first search does not reach.
CatalogSearch ==
    /\ call.op # "catalog_search"
    /\ \E prefs \in Preferences :
         \E make_scores \in TablesFor(prefs.make, get_makes(Rows, CatalogLimit)) :
           \E model_scores \in
                 TablesFor(prefs.model,
                           ModelCatalog(Rows, MatchedMake(Rows, prefs, make_scores))) :
              call' = [op |-> "catalog_search", prefs |-> prefs, rows |-> Rows,
                       filtered |-> FilteredCandidates(Rows, prefs, make_scores,
                                                       model_scores),
                       result |-> catalog_search_impl(Rows, prefs, make_scores,
                                                      model_scores)]
    /\ UNCHANGED <<store, chroma_dir, engineVars, _initialized, built>>

NextCatalog ==
    \/ \E sid \in StockIds : AddVehicle(sid)
    \/ \E sid \in StockIds : RemoveVehicle(sid)
    \/ CatalogSearch

SpecCatalog == Init /\ [][NextCatalog]_vars

-----------------------------------------------------------------------------
(* Claims about the catalog search *)

\* C6 (as claimed): a search whose budget_min is greater than its budget_max
\* returns an empty list and raises nothing, whatever the inventory and the
\* other preferences.
C6_InvertedBudgetEmpty ==
    (/\ call.op = "catalog_search"
     /\ Given(call.prefs.budget_min) /\ Given(call.prefs.budget_max)
     /\ call.prefs.budget_min[1] > call.prefs.budget_max[1])
        => call.result = Returned(<<>>)

-----------------------------------------------------------------------------
(* FactChecker (tools/fact_checker.py): the regular expressions of            *)
(* extract_claims, matched character by character                             *)

MaxPhrases == 2
MaxFailures == 1

MinPriceValue == 100

CharsOf(alphabet) == {CharAt(alphabet, i) : i \in 1..Len(alphabet)}

DigitChars == CharsOf(Digits)
NumberChars == DigitChars \cup {","}
SpaceChars == {" "}
WordChars == DigitChars \cup CharsOf(UpperLetters) \cup CharsOf(LowerLetters) \cup {"_"}

DigitValue == [c \in DigitChars |-> IndexIn(Digits, c) - 1]

\* The character at position p, "" past the end of the text.
At(text, p) == IF p >= 1 /\ p <= Len(text) THEN CharAt(text, p) ELSE ""

\* Where the longest run of characters of a class that starts at p ends
\* (the position after its last character).
RECURSIVE RunEnd(_, _, _)
RunEnd(text, p, class) ==
    IF At(text, p) \in class THEN RunEnd(text, p + 1, class) ELSE p

\* The same for a run of at most n characters.
BoundedRunEnd(text, p, class, n) ==
    LET e == RunEnd(text, p, class)
    IN  IF e - p > n THEN p + n ELSE e

\* re.IGNORECASE match of a lower-case literal at p
StartsWith(text, p, literal) ==
    /\ p + Len(literal) - 1 <= Len(text)
    /\ LowerChar(CharAt(text, p)) = CharAt(literal, 1)
    /\ Lower(SubSeq(text, p, p + Len(literal) - 1)) = literal

\* int(s.replace(",", "")): the number its digits write
RECURSIVE ToInt(_)
ToInt(s) ==
    IF s = "" THEN 0
    ELSE LET c == CharAt(s, Len(s))
             rest == ToInt(SubSeq(s, 1, Len(s) - 1))
         IN  IF c \in DigitChars THEN rest * 10 + DigitValue[c] ELSE rest

HasDigit(s) == \E i \in 1..Len(s) : CharAt(s, i) \in DigitChars

\* (?:,\d{3})* from q
RECURSIVE CommaGroupsEnd(_, _)
CommaGroupsEnd(text, q) ==
    IF At(text, q) = "," /\ BoundedRunEnd(text, q + 1, DigitChars, 3) = q + 4
    THEN CommaGroupsEnd(text, q + 4)
    ELSE q

\* \d{1,3}(?:,\d{3})* from p; p itself when no digit is at p
GroupedEnd(text, p) ==
    LET e == BoundedRunEnd(text, p, DigitChars, 3)
    IN  IF e = p THEN p ELSE CommaGroupsEnd(text, e)

\* (?:a|b|...)? from q: the first alternative that matches, or nothing
OptionalUnit(text, q, units) ==
    LET hits == {i \in DOMAIN units : StartsWith(text, q, units[i])}
    IN  IF hits = {} THEN q ELSE q + Len(units[SetMin(hits)])

\* [\d,]+\.?\d* from s; s itself when no digit or comma is at s
AmountEnd(text, s) ==
    LET e == RunEnd(text, s, NumberChars)
    IN  IF e = s THEN s
        ELSE IF At(text, e) = "." THEN RunEnd(text, e + 1, DigitChars) ELSE e

Match(start, end, groups) == [start |-> start, end |-> end, groups |-> groups]

\* stock[\s#]*(\d{5,6})
MatchStock(text, p) ==
    IF ~StartsWith(text, p, "stock") THEN <<>>
    ELSE LET q == RunEnd(text, p + 5, SpaceChars \cup {"#"})
             e == BoundedRunEnd(text, q, DigitChars, 6)
         IN  IF e - q >= 5 THEN <<Match(p, e, <<SubSeq(text, q, e - 1)>>)>> ELSE <<>>

\* \$?([\d,]+\.?\d*)\s*(?:k|mil|thousand|dollars?)?
MatchAmount(text, p) ==
    LET s == IF At(text, p) = "$" THEN p + 1 ELSE p
        e == AmountEnd(text, s)
    IN  IF e = s THEN <<>>
        ELSE <<Match(p, OptionalUnit(text, RunEnd(text, e, SpaceChars),
                                     <<"k", "mil", "thousand", "dollars", "dollar">>),
                     <<SubSeq(text, s, e - 1)>>)>>

\* price[:\s]*\$?([\d,]+\.?\d*) and cost[:\s]*\$?([\d,]+\.?\d*)
MatchLabelled(text, p, label) ==
    IF ~StartsWith(text, p, label) THEN <<>>
    ELSE LET q == RunEnd(text, p + Len(label), SpaceChars \cup {":"})
             s == IF At(text, q) = "$" THEN q + 1 ELSE q
             e == AmountEnd(text, s)
         IN  IF e = s THEN <<>> ELSE <<Match(p, e, <<SubSeq(text, s, e - 1)>>)>>

\* (\d{1,3}(?:,\d{3})*(?:\.\d{2})?)\s*(?:k|mil|thousand)?
MatchGrouped(text, p) ==
    LET e == GroupedEnd(text, p)
        f == IF At(text, e) = "." /\ BoundedRunEnd(text, e + 1, DigitChars, 2) = e + 3
             THEN e + 3 ELSE e
    IN  IF e = p THEN <<>>
        ELSE <<Match(p, OptionalUnit(text, RunEnd(text, f, SpaceChars),
                                     <<"k", "mil", "thousand">>),
                     <<SubSeq(text, p, f - 1)>>)>>

\* (\w+)\s+(\w+)\s+(20\d{2})
MatchVehicle(text, p) ==
    LET e1 == RunEnd(text, p, WordChars)
        s2 == RunEnd(text, e1, SpaceChars)
        e2 == RunEnd(text, s2, WordChars)
        s3 == RunEnd(text, e2, SpaceChars)
    IN  IF /\ e1 > p /\ s2 > e1 /\ e2 > s2 /\ s3 > e2
           /\ StartsWith(text, s3, "20")
           /\ BoundedRunEnd(text, s3 + 2, DigitChars, 2) = s3 + 4
        THEN <<Match(p, s3 + 4, <<SubSeq(text, p, e1 - 1), SubSeq(text, s2, e2 - 1),
                                  SubSeq(text, s3, s3 + 3)>>)>>
        ELSE <<>>

\* (\d{1,3}(?:,\d{3})*)\s*km, ...\s*kilometers?, ...\s*miles?
MatchDistance(text, p, unit) ==
    LET e == GroupedEnd(text, p)
        q == RunEnd(text, e, SpaceChars)
        r == q + Len(unit)
    IN  IF e > p /\ StartsWith(text, q, unit)
        THEN <<Match(p, IF unit # "km" /\ Lower(At(text, r)) = "s" THEN r + 1 ELSE r,
                     <<SubSeq(text, p, e - 1)>>)>>
        ELSE <<>>

\* mileage[:\s]*(\d{1,3}(?:,\d{3})*)
MatchMileage(text, p) ==
    IF ~StartsWith(text, p, "mileage") THEN <<>>
    ELSE LET q == RunEnd(text, p + 7, SpaceChars \cup {":"})
             e == GroupedEnd(text, q)
         IN  IF e > q THEN <<Match(p, e, <<SubSeq(text, q, e - 1)>>)>> ELSE <<>>

MatchAt(pattern, text, p) ==
    CASE pattern = "stock"      -> MatchStock(text, p)
      [] pattern = "amount"     -> MatchAmount(text, p)
      [] pattern = "price"      -> MatchLabelled(text, p, "price")
      [] pattern = "cost"       -> MatchLabelled(text, p, "cost")
      [] pattern = "grouped"    -> MatchGrouped(text, p)
      [] pattern = "vehicle"    -> MatchVehicle(text, p)
      [] pattern = "km"         -> MatchDistance(text, p, "km")
      [] pattern = "kilometers" -> MatchDistance(text, p, "kilometer")
      [] pattern = "mileage"    -> MatchMileage(text, p)
      [] pattern = "miles"      -> MatchDistance(text, p, "mile")

\* re.finditer(pattern, text, re.IGNORECASE) from position p: the leftmost
\* match, then the matches after its end.
RECURSIVE finditer(_, _, _)
finditer(pattern, text, p) ==
    LET Rest(m) ==
            IF m = <<>> THEN finditer(pattern, text, p + 1)
            ELSE m \o finditer(pattern, text, IF m[1].end > p THEN m[1].end ELSE p + 1)
    IN  IF p > Len(text) THEN <<>> ELSE Rest(MatchAt(pattern, text, p))

Claim(type, value, text, m) ==
    [type |-> type, value |-> value, text_position |-> m.start - 1,
     original_text |-> SubSeq(text, m.start, m.end - 1)]

StockClaims(text) ==
    LET Claims(ms) ==
            [i \in DOMAIN ms |-> Claim("stock_id", ToInt(ms[i].groups[1]), text, ms[i])]
    IN  Claims(finditer("stock", text, 1))

\* float() raises ValueError for a group without digits; values under 100 are
\* skipped. The texts hold no decimal point, so every value is whole.
PriceClaims(pattern, text) ==
    LET Claims(ms) ==
            [i \in DOMAIN ms |-> Claim("price", ToInt(ms[i].groups[1]), text, ms[i])]
    IN  Claims(SelectSeq(finditer(pattern, text, 1),
                         LAMBDA m : HasDigit(m.groups[1])
                                       /\ ToInt(m.groups[1]) >= MinPriceValue))

VehicleClaims(text) ==
    LET Claims(ms) ==
            [i \in DOMAIN ms |->
                Claim("vehicle_mention",
                      [make |-> Lower(ms[i].groups[1]), model |-> Lower(ms[i].groups[2]),
                       year |-> ToInt(ms[i].groups[3])], text, ms[i])]
    IN  Claims(finditer("vehicle", text, 1))

MileageClaims(pattern, text) ==
    LET Claims(ms) ==
            [i \in DOMAIN ms |-> Claim("mileage", ToInt(ms[i].groups[1]), text, ms[i])]
    IN  Claims(finditer(pattern, text, 1))

extract_claims(text) ==
    StockClaims(text)
       \o PriceClaims("amount", text) \o PriceClaims("price", text)
       \o PriceClaims("cost", text) \o PriceClaims("grouped", text)
       \o VehicleClaims(text)
       \o MileageClaims("km", text) \o MileageClaims("kilometers", text)
       \o MileageClaims("mileage", text) \o MileageClaims("miles", text)

-----------------------------------------------------------------------------
(* FactChecker: verification against the vehicle table, verify_text, and the  *)
(* two callers of verify_text                                                 *)

PriceToleranceMilli == 1
MileageTolerancePercent == 1
MaxShownMatches == 3

\* needle in hay
Contains(hay, needle) ==
    \E i \in 1..(Len(hay) - Len(needle) + 1) : SubSeq(hay, i, i + Len(needle) - 1) = needle

\* Vehicle.make.ilike(f"%{make}%")
ILikeContains(column, value) == Contains(Lower(column), Lower(value))

\* A lookup that finds a context: the first vehicle of the table.
NearbyFirstVehicle(claim) == <<StockBase + 1>>

\* _find_nearby_stock_id: always None
_find_nearby_stock_id(claim) == <<>>

\* A lookup that takes the first record of the table whatever its stock_id.
VerifyStockIdAnyRecord(claim, rows) ==
    IF rows = <<>>
    THEN [valid |-> FALSE, error |-> "Stock ID not found in database"]
    ELSE [valid |-> TRUE,
          actual_data |-> [stock_id |-> rows[1].stock_id, price |-> rows[1].price,
                           make |-> rows[1].make, model |-> rows[1].model,
                           year |-> rows[1].year, km |-> rows[1].km]]

_verify_stock_id(claim, rows) ==
    LET found == SelectSeq(rows, LAMBDA v : v.stock_id = claim.value)
    IN  IF found = <<>>
        THEN [valid |-> FALSE, error |-> "Stock ID not found in database"]
        ELSE [valid |-> TRUE,
              actual_data |-> [stock_id |-> found[1].stock_id, price |-> found[1].price,
                               make |-> found[1].make, model |-> found[1].model,
                               year |-> found[1].year, km |-> found[1].km]]

\* abs(actual - claimed) / actual <= tolerance, tolerance = milli / 1000
WithinMilli(actual, claimed, milli) ==
    (IF actual >= claimed THEN actual - claimed ELSE claimed - actual) * 1000
        <= milli * actual

\* A range check that leaves the two ends of the range out.
InOpenRange(column, claimed) ==
    10 * column > 9 * claimed /\ 10 * column < 11 * claimed

\* column.between(claimed * 0.9, claimed * 1.1)
InSimilarRange(column, claimed) ==
    10 * column >= 9 * claimed /\ 10 * column <= 11 * claimed

_verify_price(claim, rows, price_tolerance) ==
    LET claimed_price == claim.value
        nearby_stock_id == _find_nearby_stock_id(claim)
        vehicle == IF nearby_stock_id = <<>> THEN <<>>
                   ELSE SelectSeq(rows, LAMBDA v : v.stock_id = nearby_stock_id[1])
        similar_vehicles == SelectSeq(rows, LAMBDA v : InSimilarRange(v.price, claimed_price))
    IN  IF vehicle # <<>>
        THEN [valid |-> WithinMilli(vehicle[1].price, claimed_price, price_tolerance),
              actual_price |-> vehicle[1].price, claimed_price |-> claimed_price,
              stock_id |-> vehicle[1].stock_id]
        ELSE IF similar_vehicles # <<>>
        THEN [valid |-> TRUE,
              warning |-> "Price is in reasonable range but no specific vehicle context found",
              similar_vehicles_count |-> Len(similar_vehicles)]
        ELSE [valid |-> FALSE,
              error |-> "Price not found in database and no similar vehicles exist"]

_verify_vehicle_mention(claim, rows) ==
    LET vehicles == SelectSeq(rows, LAMBDA v :
                        /\ ILikeContains(v.make, claim.value.make)
                        /\ ILikeContains(v.model, claim.value.model)
                        /\ v.year = claim.value.year)
        shown == Take(vehicles, MaxShownMatches)
    IN  IF vehicles = <<>>
        THEN [valid |-> FALSE, error |-> "No vehicle found matching make model year"]
        ELSE [valid |-> TRUE,
              actual_data |-> [matches |-> Len(vehicles),
                               vehicles |-> [i \in DOMAIN shown |->
                                   [stock_id |-> shown[i].stock_id, make |-> shown[i].make,
                                    model |-> shown[i].model, year |-> shown[i].year,
                                    price |-> shown[i].price]]]]

_verify_mileage(claim, rows) ==
    LET claimed_mileage == claim.value
        nearby_stock_id == _find_nearby_stock_id(claim)
        vehicle == IF nearby_stock_id = <<>> THEN <<>>
                   ELSE SelectSeq(rows, LAMBDA v : v.stock_id = nearby_stock_id[1])
        similar_vehicles == SelectSeq(rows, LAMBDA v : InSimilarRange(v.km, claimed_mileage))
    IN  IF vehicle # <<>>
        THEN [valid |-> WithinMilli(vehicle[1].km, claimed_mileage,
                                    10 * MileageTolerancePercent),
              actual_mileage |-> vehicle[1].km, claimed_mileage |-> claimed_mileage,
              stock_id |-> vehicle[1].stock_id]
        ELSE IF similar_vehicles # <<>>
        THEN [valid |-> TRUE,
              warning |-> "Mileage is in reasonable range but no specific vehicle context found",
              similar_vehicles_count |-> Len(similar_vehicles)]
        ELSE [valid |-> FALSE, error |-> "Mileage not found in database"]

\* What verify_claim returns when the verification raised (except Exception).
VerificationFailed == [valid |-> FALSE, error |-> "Verification failed"]

\* A verify_claim whose except clause records neither valid nor an error.
VerifyClaimUnrecorded(claim, rows, price_tolerance, raises) ==
    IF raises THEN [raised |-> TRUE]
    ELSE CASE claim.type = "stock_id"        -> _verify_stock_id(claim, rows)
           [] claim.type = "price"           -> _verify_price(claim, rows, price_tolerance)
           [] claim.type = "vehicle_mention" -> _verify_vehicle_mention(claim, rows)
           [] claim.type = "mileage"         -> _verify_mileage(claim, rows)
           [] OTHER -> [valid |-> TRUE, warning |-> "Unknown claim type"]

\* verify_claim; raises: the database query made for the claim raises.
verify_claim(claim, rows, price_tolerance, raises) ==
    IF raises THEN VerificationFailed
    ELSE CASE claim.type = "stock_id"        -> _verify_stock_id(claim, rows)
           [] claim.type = "price"           -> _verify_price(claim, rows, price_tolerance)
           [] claim.type = "vehicle_mention" -> _verify_vehicle_mention(claim, rows)
           [] claim.type = "mileage"         -> _verify_mileage(claim, rows)
           [] OTHER -> [valid |-> TRUE, warning |-> "Unknown claim type"]

\* verification["claim"] = claim
WithClaim(verification, claim) ==
    [k \in DOMAIN verification \cup {"claim"} |->
        IF k = "claim" THEN claim ELSE verification[k]]

\* verification.get("valid", False)
IsValid(verification) == "valid" \in DOMAIN verification /\ verification.valid

CountWhere(verifications, wanted) ==
    Cardinality({i \in DOMAIN verifications : IsValid(verifications[i]) = wanted})

\* The texts checked: up to MaxPhrases phrases, joined by single spaces.
Phrases == {"hello", "stock", "10001", "$200", "km", "1,000 km", "toyota corolla", "2019"}

RECURSIVE Join(_)
Join(phrases) ==
    IF phrases = <<>> THEN ""
    ELSE IF Len(phrases) = 1 THEN phrases[1]
    ELSE phrases[1] \o " " \o Join(SubSeq(phrases, 2, Len(phrases)))

FactTexts == {Join(ps) : ps \in UNION {[1..n -> Phrases] : n \in 0..MaxPhrases}}

\* The texts and the records of the worked scenarios: the record 1001, the
\* same vehicle under a five-digit stock id, a dearer one, and the sentences
\* checked against them.
ScenarioRecord ==
    [stock_id |-> 1001, make |-> "Toyota", model |-> "Corolla", year |-> 2020,
     price |-> 18500, km |-> 25000, version |-> "", features |-> {}]

ScenarioRecords ==
    <<ScenarioRecord,
      [ScenarioRecord EXCEPT !.stock_id = 10010],
      [ScenarioRecord EXCEPT !.stock_id = 10020, !.price = 50000],
      [ScenarioRecord EXCEPT !.stock_id = 10030, !.year = 2021, !.km = 90000]>>

ScenarioText == "Toyota Corolla 2020 stock 1001 costs $18,500 with 25,000 km"

ScenarioTexts ==
    {ScenarioText, "stock 1001 costs $50,000", "stock 10010 price: $18,500"}

\* The inventories of the scenarios: the records kept, in stock_id order.
ScenarioInventories ==
    {SelectSeq(ScenarioRecords, LAMBDA r : r.stock_id \in kept) :
        kept \in SUBSET {ScenarioRecords[i].stock_id : i \in DOMAIN ScenarioRecords}}

\* extract_claims of every text checked, computed once.
ClaimsOfText == [text \in FactTexts \cup ScenarioTexts |-> extract_claims(text)]

NoClaimsSummary == "No verifiable claims found in text"

FoundSummary(found, valid_count, invalid_count) ==
    "Found " \o ToString(found) \o " claims: " \o ToString(valid_count) \o " valid, "
        \o ToString(invalid_count) \o " invalid"

\* The queries that raise: at most MaxFailures of the claims' verifications.
Failures(claims) == {failing \in SUBSET DOMAIN claims : Cardinality(failing) <= MaxFailures}

\* verify_text; failing: the indices of the claims whose query raises.
verify_text(text, rows, price_tolerance, failing) ==
    LET Verify(claims) ==
            [i \in DOMAIN claims |->
                WithClaim(verify_claim(claims[i], rows, price_tolerance, i \in failing),
                          claims[i])]
        Found(verifications, valid_count, invalid_count) ==
            [valid |-> invalid_count = 0, claims_found |-> Len(verifications),
             valid_claims |-> valid_count, invalid_claims |-> invalid_count,
             verifications |-> verifications,
             summary |-> FoundSummary(Len(verifications), valid_count, invalid_count)]
        Report(verifications) ==
            IF verifications = <<>>
            THEN [valid |-> TRUE, claims_found |-> 0, verifications |-> <<>>,
                  summary |-> NoClaimsSummary]
            ELSE Found(verifications, CountWhere(verifications, TRUE),
                       CountWhere(verifications, FALSE))
    IN  Report(Verify(ClaimsOfText[text]))

\* d[key] of a dict: the first of the keys that is missing raises KeyError.
MissingKey(d, keys) ==
    LET missing == {i \in DOMAIN keys : keys[i] \notin DOMAIN d}
    IN  IF missing = {} THEN <<>> ELSE <<keys[SetMin(missing)]>>

\* ValidatedRAGChain._validate_response
_validate_response(response, rows, enable_fact_checking, has_fact_checker, failing) ==
    IF ~enable_fact_checking \/ ~has_fact_checker
    THEN Returned([validated |-> TRUE, fact_check_results |-> <<>>,
                   validation_summary |-> "Fact-checking disabled"])
    ELSE LET Summarised(validation_results, missing) ==
                 IF missing # <<>> THEN KeyError(missing[1])
                 ELSE Returned([validated |-> validation_results.valid,
                                fact_check_results |-> validation_results.verifications,
                                validation_summary |-> validation_results.summary,
                                claims_found |-> validation_results.claims_found,
                                valid_claims |-> validation_results.valid_claims,
                                invalid_claims |-> validation_results.invalid_claims])
             Validated(validation_results) ==
                 Summarised(validation_results,
                            MissingKey(validation_results,
                                       <<"valid", "verifications", "summary", "claims_found",
                                         "valid_claims", "invalid_claims">>))
         IN  Validated(verify_text(response, rows, PriceToleranceMilli, failing))

QuestionRequired == [status |-> "raised", error |-> "Question is required"]

\* ValidatedRAGChain.invoke: retrieval and generation are done by the
\* retriever and the language model; response is the text generated.
invoke(question, documents, context, response, rows, enabled, has_fact_checker, failing) ==
    IF question = "" THEN QuestionRequired
    ELSE LET Result(validation_results) ==
                 IF validation_results.status = "raised" THEN validation_results
                 ELSE Returned([question |-> question, response |-> response,
                                context |-> context, source_documents |-> documents,
                                validation_results |-> validation_results.value,
                                metadata |-> [num_documents |-> Len(documents),
                                              context_length |-> Len(context),
                                              response_length |-> Len(response),
                                              fact_checking_enabled |-> enabled]])
         IN  Result(_validate_response(response, rows, enabled, has_fact_checker, failing))

\* The lines of verified_facts, discrepancies and warnings for one claim.
VerifiedFact(verification) ==
    LET claim == verification.claim
    IN  IF IsValid(verification) /\ claim.type \in {"stock_id", "price", "vehicle_mention",
                                                     "mileage"}
        THEN <<[claim |-> claim.original_text, fact |-> claim.type]>>
        ELSE <<>>

Discrepancy(verification) ==
    IF IsValid(verification) THEN <<>>
    ELSE <<[claim |-> verification.claim.original_text,
            error |-> Get(verification, "error", "Unknown error")]>>

ClaimWarning(verification) ==
    IF "warning" \in DOMAIN verification
    THEN <<[claim |-> verification.claim.original_text, warning |-> verification.warning]>>
    ELSE <<>>

RECURSIVE Flatten(_)
Flatten(lists) ==
    IF lists = <<>> THEN <<>> ELSE lists[1] \o Flatten(SubSeq(lists, 2, Len(lists)))

\* enhanced_fact_check_impl; confidence_score is the fraction
\* numerator / denominator.
enhanced_fact_check_impl(response_text, rows, price_tolerance, failing) ==
    LET Checked(verification_results) ==
            LET vs == verification_results.verifications
                verified_facts == Flatten([i \in DOMAIN vs |-> VerifiedFact(vs[i])])
                discrepancies == Flatten([i \in DOMAIN vs |-> Discrepancy(vs[i])])
                claim_warnings == Flatten([i \in DOMAIN vs |-> ClaimWarning(vs[i])])
                missing == MissingKey(verification_results, <<"claims_found", "valid_claims">>)
                total_claims == verification_results.claims_found
                valid_claims == verification_results.valid_claims
                confidence_score == IF total_claims = 0
                                    THEN [numerator |-> 1, denominator |-> 1]
                                    ELSE [numerator |-> valid_claims, denominator |-> total_claims]
                is_accurate == IF total_claims = 0 THEN TRUE
                               ELSE discrepancies = <<>> /\ 10 * valid_claims > 7 * total_claims
                low == IF 2 * confidence_score.numerator < confidence_score.denominator
                          /\ total_claims > 0
                       THEN <<[warning |-> "Low confidence in verification - multiple vehicles may match"]>>
                       ELSE <<>>
                mismatch == IF ~is_accurate
                               /\ 2 * confidence_score.numerator > confidence_score.denominator
                            THEN <<[warning |-> "Some information doesn't match the database"]>>
                            ELSE <<>>
            IN  IF missing # <<>> THEN KeyError(missing[1])
                ELSE Returned([is_accurate |-> is_accurate, verified_facts |-> verified_facts,
                               discrepancies |-> discrepancies,
                               warnings |-> claim_warnings \o low \o mismatch,
                               confidence_score |-> confidence_score,
                               claims_found |-> total_claims,
                               validation_details |-> verification_results])
    IN  Checked(verify_text(response_text, rows, price_tolerance, failing))

Questions == {"", "hello"}

\* fact checking enabled with a checker, enabled without one, disabled
ChainSettings == {<<TRUE, TRUE>>, <<TRUE, FALSE>>, <<FALSE, TRUE>>}

\* The three calls read the table and change nothing: each is made from a
\* state no call has been made in.
VerifyText ==
    /\ call = NoCall
    /\ \E text \in FactTexts :
          \E failing \in Failures(ClaimsOfText[text]) :
             call' = [op |-> "verify_text", text |-> text, rows |-> Rows,
                      claims |-> ClaimsOfText[text], failing |-> failing,
                      result |-> verify_text(text, Rows, PriceToleranceMilli, failing)]
    /\ UNCHANGED <<store, chroma_dir, engineVars, _initialized, built>>

Invoke ==
    /\ call = NoCall
    /\ \E question \in Questions, response \in FactTexts, settings \in ChainSettings :
          \E failing \in Failures(ClaimsOfText[response]) :
             /\ question = "" => (response = "" /\ settings = <<TRUE, TRUE>>)
             /\ settings # <<TRUE, TRUE>> => failing = {}
             /\ call' = [op |-> "invoke", question |-> question, text |-> response,
                         claims |-> ClaimsOfText[response], failing |-> failing,
                         enable_fact_checking |-> settings[1],
                         has_fact_checker |-> settings[2],
                         result |-> invoke(question, <<>>, "", response, Rows,
                                           settings[1], settings[2], failing)]
    /\ UNCHANGED <<store, chroma_dir, engineVars, _initialized, built>>

EnhancedFactCheck ==
    /\ call = NoCall
    /\ \E text \in FactTexts :
          \E failing \in Failures(ClaimsOfText[text]) :
             call' = [op |-> "enhanced_fact_check", text |-> text,
                      claims |-> ClaimsOfText[text], failing |-> failing,
                      result |-> enhanced_fact_check_impl(text, Rows, PriceToleranceMilli,
                                                          failing)]
    /\ UNCHANGED <<store, chroma_dir, engineVars, _initialized, built>>

NextFact ==
    \/ \E sid \in StockIds : AddVehicle(sid)
    \/ \E sid \in StockIds : RemoveVehicle(sid)
    \/ VerifyText
    \/ Invoke
    \/ EnhancedFactCheck

SpecFact == Init /\ [][NextFact]_vars

\* The scenarios: an inventory and a sentence, then one check of the sentence.
InitScenario ==
    /\ store = <<>>
    /\ chroma_dir = [exists |-> FALSE, docs |-> <<>>]
    /\ vector_store = None
    /\ bm25_retriever = None
    /\ vehicles_corpus = <<>>
    /\ vehicles_metadata = <<>>
    /\ _initialized = FALSE
    /\ built = FALSE
    /\ \E rows \in ScenarioInventories, text \in ScenarioTexts :
          call = [op |-> "scenario", rows |-> rows, text |-> text]

VerifyScenario ==
    /\ call.op = "scenario"
    /\ call' = [op |-> "verify_text", text |-> call.text, rows |-> call.rows,
                claims |-> ClaimsOfText[call.text], failing |-> {},
                result |-> verify_text(call.text, call.rows, PriceToleranceMilli, {})]
    /\ UNCHANGED <<store, chroma_dir, engineVars, _initialized, built>>

CheckScenario ==
    /\ call.op = "scenario"
    /\ call' = [op |-> "enhanced_fact_check", text |-> call.text, rows |-> call.rows,
                claims |-> ClaimsOfText[call.text], failing |-> {},
                result |-> enhanced_fact_check_impl(call.text, call.rows,
                                                    PriceToleranceMilli, {})]
    /\ UNCHANGED <<store, chroma_dir, engineVars, _initialized, built>>

NextScenario ==
    \/ VerifyScenario
    \/ CheckScenario

SpecScenario == InitScenario /\ [][NextScenario]_vars

-----------------------------------------------------------------------------
(* Claims about verify_text and its callers *)

ReportKeys == {"valid", "claims_found", "valid_claims", "invalid_claims", "verifications"}

\* C9 (as claimed): every report of verify_text has valid = (invalid_claims =
\* 0), claims_found equal to the number of extracted claims and to the length
\* of verifications, valid_claims + invalid_claims = claims_found, and one
\* verification per extracted claim, in extraction order, carrying its claim.
C9_ReportCounts ==
    call.op = "verify_text" =>
        LET report == call.result
        IN  /\ ReportKeys \subseteq DOMAIN report
            /\ report.valid = (report.invalid_claims = 0)
            /\ report.claims_found = Len(call.claims)
            /\ report.claims_found = Len(report.verifications)
            /\ report.valid_claims + report.invalid_claims = report.claims_found
            /\ \A i \in DOMAIN report.verifications :
                  report.verifications[i].claim = call.claims[i]

\* C10 (as claimed): for a text without claims verify_text returns a valid
\* report with claims_found = 0 and the "no verifiable claims" summary, and
\* both callers complete: invoke returns validation_results with validated
\* true, enhanced_fact_check_impl returns is_accurate true, confidence 1.0 and
\* claims_found 0.
C10_NoClaimsCompletes ==
    (call.op \in {"verify_text", "invoke", "enhanced_fact_check"} /\ call.claims = <<>>)
        => CASE call.op = "verify_text" ->
                   /\ call.result.valid
                   /\ call.result.claims_found = 0
                   /\ call.result.summary = NoClaimsSummary
             [] call.op = "invoke" ->
                   call.question # "" =>
                      /\ call.result.status = "returned"
                      /\ call.result.value.validation_results.validated
             [] call.op = "enhanced_fact_check" ->
                   /\ call.result.status = "returned"
                   /\ call.result.value.is_accurate
                   /\ call.result.value.confidence_score
                         = [numerator |-> 1, denominator |-> 1]
                   /\ call.result.value.claims_found = 0

\* C11: a verification that raises never aborts verify_text. The report holds
\* one verification per extracted claim, in order; a claim whose verification
\* raised is recorded with valid = false and an error text; every other claim
\* has the verification it has when nothing raises.
C11_FailureIsolated ==
    (call.op = "verify_text" /\ call.claims # <<>>)
        => LET vs == call.result.verifications
               undisturbed ==
                   verify_text(call.text, call.rows, PriceToleranceMilli, {}).verifications
           IN  /\ DOMAIN call.result = ReportKeys \cup {"summary"}
               /\ Len(vs) = Len(call.claims)
               /\ call.result.claims_found = Len(call.claims)
               /\ \A i \in DOMAIN vs :
                     /\ vs[i].claim = call.claims[i]
                     /\ i \in call.failing =>
                           /\ "valid" \in DOMAIN vs[i] /\ ~vs[i].valid
                           /\ "error" \in DOMAIN vs[i] /\ vs[i].error # ""
                     /\ i \notin call.failing => vs[i] = undisturbed[i]

\* A verification raised for one claim of a text and another claim of the
\* text was verified valid.
C11_Witness ==
    /\ call.op = "verify_text"
    /\ call.failing # {}
    /\ \E i \in DOMAIN call.claims :
          i \notin call.failing /\ IsValid(call.result.verifications[i])
    /\ call.result.invalid_claims = Cardinality(call.failing)

\* Verification i of a verify_text call was made (its query did not raise)
\* for a claim of the given type.
Verified(i, type) ==
    /\ call.op = "verify_text"
    /\ i \in DOMAIN call.claims
    /\ i \notin call.failing
    /\ call.claims[i].type = type

\* C12 (as claimed): a price claim is valid only within the relative tolerance
\* of a record: a valid price claim P has a record whose price p satisfies
\* |p - P| <= tolerance * P, whichever record the claim is about.
C12_PriceWithinTolerance ==
    \A i \in 1..(IF call.op = "verify_text" THEN Len(call.claims) ELSE 0) :
        (Verified(i, "price") /\ call.result.verifications[i].valid)
            => \E r \in Range(call.rows) :
                  LET P == call.claims[i].value
                      diff == IF r.price >= P THEN r.price - P ELSE P - r.price
                  IN  diff * 1000 <= PriceToleranceMilli * P

\* C13: without record context a price (mileage) claim is valid, with a
\* warning, exactly when some record's price (km) lies in the closed range
\* from 90% to 110% of the claimed value, and is invalid with an error
\* otherwise.
C13_FallbackRange ==
    \A i \in 1..(IF call.op = "verify_text" THEN Len(call.claims) ELSE 0) :
        \A type \in {"price", "mileage"} :
            Verified(i, type) =>
                LET v == call.result.verifications[i]
                    claimed == call.claims[i].value
                    near == {r \in Range(call.rows) :
                                LET column == IF type = "price" THEN r.price ELSE r.km
                                IN  9 * claimed <= 10 * column /\ 10 * column <= 11 * claimed}
                IN  /\ v.valid = (near # {})
                    /\ v.valid => "warning" \in DOMAIN v /\ "error" \notin DOMAIN v
                    /\ ~v.valid => "error" \in DOMAIN v /\ "warning" \notin DOMAIN v

\* A price claim was found valid by a record priced exactly 110% of it, and
\* a mileage claim was found valid.
C13_Witness ==
    /\ \E i \in 1..(IF call.op = "verify_text" THEN Len(call.claims) ELSE 0) :
          /\ Verified(i, "price") /\ call.result.verifications[i].valid
          /\ \A r \in Range(call.rows) : 10 * r.price >= 11 * call.claims[i].value
          /\ \E r \in Range(call.rows) : 10 * r.price = 11 * call.claims[i].value
    /\ \E i \in 1..(IF call.op = "verify_text" THEN Len(call.claims) ELSE 0) :
          Verified(i, "mileage") /\ call.result.verifications[i].valid

\* A price claim and a mileage claim were found invalid.
C13_Invalid ==
    /\ \E i \in DOMAIN call.claims :
          Verified(i, "price") /\ ~call.result.verifications[i].valid
    /\ \E i \in DOMAIN call.claims :
          Verified(i, "mileage") /\ ~call.result.verifications[i].valid

\* C14: a stock-id claim is valid exactly when a record with that stock_id
\* is in the inventory; a valid result carries that record's stock_id, price,
\* make, model, year and km, an invalid one the 'not found' error.
C14_StockIdLookup ==
    \A i \in 1..(IF call.op = "verify_text" THEN Len(call.claims) ELSE 0) :
        Verified(i, "stock_id") =>
            LET v == call.result.verifications[i]
                found == {r \in Range(call.rows) : r.stock_id = call.claims[i].value}
            IN  /\ v.valid = (found # {})
                /\ v.valid =>
                      /\ "error" \notin DOMAIN v
                      /\ \E r \in found :
                            v.actual_data = [stock_id |-> r.stock_id, price |-> r.price,
                                             make |-> r.make, model |-> r.model,
                                             year |-> r.year, km |-> r.km]
                /\ ~v.valid =>
                      /\ v.error = "Stock ID not found in database"
                      /\ "actual_data" \notin DOMAIN v

\* A stock-id claim was found valid in an inventory that holds another
\* vehicle as well.
C14_Witness ==
    \E i \in 1..(IF call.op = "verify_text" THEN Len(call.claims) ELSE 0) :
        /\ Verified(i, "stock_id") /\ call.result.verifications[i].valid
        /\ \E r \in Range(call.rows) : r.stock_id # call.claims[i].value

\* A stock-id claim was found invalid in an inventory that holds a vehicle.
C14_NotFound ==
    \E i \in 1..(IF call.op = "verify_text" THEN Len(call.claims) ELSE 0) :
        /\ Verified(i, "stock_id") /\ ~call.result.verifications[i].valid
        /\ call.rows # <<>>

\* The claims of the given type among the claims extracted.
ClaimsOfType(claims, type) == {i \in DOMAIN claims : claims[i].type = type}

\* C16 (as claimed): a text that holds one mention yields one claim, of the
\* mention's type: one stock id, one price, one make-model-year or one
\* mileage.
C16_OneClaimPerMention ==
    call.op = "verify_text" =>
        /\ call.text = "stock 10001" =>
              Len(call.claims) = 1 /\ call.claims[1].type = "stock_id"
        /\ call.text = "$200" =>
              Len(call.claims) = 1 /\ call.claims[1].type = "price"
        /\ call.text = "toyota corolla 2019" =>
              Len(call.claims) = 1 /\ call.claims[1].type = "vehicle_mention"
        /\ call.text = "1,000 km" =>
              Len(call.claims) = 1 /\ call.claims[1].type = "mileage"

\* C15 (as claimed): with the record 1001 alone in the inventory, the
\* scenario sentence yields four claims, one each of stock_id, price,
\* vehicle_mention and mileage, all of them valid.
C15_ScenarioFourValidClaims ==
    (/\ call.op = "verify_text"
     /\ call.text = ScenarioText
     /\ call.rows = <<ScenarioRecord>>)
        => /\ Len(call.claims) = 4
           /\ \A type \in {"stock_id", "price", "vehicle_mention", "mileage"} :
                 Cardinality(ClaimsOfType(call.claims, type)) = 1
           /\ call.result.claims_found = 4
           /\ \A i \in DOMAIN call.result.verifications :
                 call.result.verifications[i].valid
           /\ call.result.invalid_claims = 0

\* A catalog search returned a list.
CatalogReturned == call.op = "catalog_search" /\ call.result.status = "returned"

\* C17 (as claimed): no vehicle a catalog search returns has km above the
\* km_max asked, and every one has every feature asked.
C17_CeilingAndFeatures ==
    CatalogReturned =>
        \A r \in Range(call.result.value) :
            /\ Given(call.prefs.km_max) => r.km <= call.prefs.km_max[1]
            /\ \A feature \in Range(call.prefs.features) : feature \in r.features

\* The key a sort_by orders by, negated where the order is descending, so
\* that the order asked is non-decreasing SortKey.
SortKey(r, sort_by) ==
    CASE sort_by = "price_low"  -> r.price
      [] sort_by = "price_high" -> 0 - r.price
      [] sort_by = "year_new"   -> 0 - r.year
      [] sort_by = "km_low"     -> r.km

\* C19: a catalog search returns at most max_results vehicles in the order of
\* the requested key (price_low, price_high, year_new, km_low), and they are
\* the first of the filtered candidates in that order: as many as max_results
\* allows, none of the candidates left out ranking before one returned.
C19_SortedAndCut ==
    (CatalogReturned /\ call.prefs.sort_by \in {"price_low", "price_high", "year_new", "km_low"})
        => LET R == call.result.value
               F == call.filtered
               key(r) == SortKey(r, call.prefs.sort_by)
               left == {VehicleResult(F[i]) : i \in DOMAIN F} \ Range(R)
           IN  /\ Len(R) = IF Len(F) < call.prefs.max_results THEN Len(F)
                           ELSE call.prefs.max_results
               /\ Range(R) \subseteq {VehicleResult(F[i]) : i \in DOMAIN F}
               /\ Cardinality(Range(R)) = Len(R)
               /\ \A i \in 1..(Len(R) - 1) : key(R[i]) <= key(R[i + 1])
               /\ \A r \in Range(R) : \A l \in left : key(r) <= key(l)

\* A search sorted by descending price or year returned the last candidate of
\* the query and left an earlier one out.
C19_Witness ==
    /\ CatalogReturned
    /\ call.prefs.sort_by \in {"price_high", "year_new"}
    /\ Len(call.filtered) > call.prefs.max_results
    /\ call.result.value[1] = VehicleResult(call.filtered[Len(call.filtered)])

\* A search sorted by ascending price or km returned every candidate, more
\* than one.
C19_AllReturned ==
    /\ CatalogReturned
    /\ call.prefs.sort_by \in {"price_low", "km_low"}
    /\ Len(call.result.value) > 1
    /\ Len(call.result.value) = Len(call.filtered)

\* C18 (as claimed): the DAO's search returns exactly the vehicles of the
\* table that satisfy every filter given, whatever the values given, 0
\* included; a filter not given constrains nothing.
C18_ExactlyTheMatches ==
    call.op = "dao_search" =>
        LET f == call.filters
        IN  call.result =
                SelectSeq(call.rows, LAMBDA v :
                    /\ Given(f.make) => v.make = f.make[1]
                    /\ Given(f.model) => v.model = f.model[1]
                    /\ Given(f.min_year) => v.year >= f.min_year[1]
                    /\ Given(f.max_year) => v.year <= f.max_year[1]
                    /\ Given(f.min_price) => v.price >= f.min_price[1]
                    /\ Given(f.max_price) => v.price <= f.max_price[1]
                    /\ Given(f.km_max) => v.km <= f.km_max[1])

-----------------------------------------------------------------------------
(* Document retrieval (tools/document_search.py): RetrievalSystem and         *)
(* document_search_impl                                                       *)

MaxDocs == 2

DefaultK == 6
DefaultScoreThreshold == 6
FetchKMultiplier == 4
DocsBm25K == 3
EnsembleWeightBm25 == 7
EnsembleWeightDense == 3
RrfC == 60

\* Similarity scores and thresholds are counted in tenths: 6 is 0.6.
SimilarityLevels == {3, 6, 9}
Thresholds == {<<>>, <<3>>, <<8>>}
DocumentKs == {1, DefaultK}

\* The documents of the data directory for one query: document i has the
\* dense similarity and the BM25 score the query gives it.
DocumentSets ==
    UNION {[1..n -> [similarity : SimilarityLevels, lexical : {0, 1}]] : n \in 1..MaxDocs}

\* initialize_retriever: the BM25 retriever, the dense retriever in
\* score-threshold or in MMR mode, and the ensemble of the two.
initialize_retriever(k, score_threshold) ==
    [bm25_k |-> DocsBm25K,
     vector_store_retriever |->
         IF score_threshold # <<>>
         THEN [search_type |-> "similarity_score_threshold", k |-> k,
               score_threshold |-> score_threshold[1]]
         ELSE [search_type |-> "mmr", k |-> k, fetch_k |-> k * FetchKMultiplier],
     weights |-> <<EnsembleWeightBm25, EnsembleWeightDense>>]

\* RetrievalSystem.__init__ calls initialize_retriever() with its defaults.
RetrievalSystem == initialize_retriever(DefaultK, <<DefaultScoreThreshold>>)

\* The documents (their indices) by descending score, the earlier first
\* among equals.
ByScore(docs, Score(_)) ==
    LET sorted == SortedDesc([i \in DOMAIN docs |-> <<i, Score(docs[i])>>])
    IN  [i \in DOMAIN sorted |-> sorted[i][1]]

\* BM25Retriever with k = 3: the k best documents, whatever their scores.
DocsBm25Results(retriever, docs) ==
    Take(ByScore(docs, LAMBDA d : d.lexical), retriever.bm25_k)

\* The lists the dense retriever can return. In score-threshold mode: the k
\* most similar documents among those at or above the threshold. In MMR mode:
\* the most similar document, then documents of the fetch_k most similar in
\* an order that depends on their embeddings.
DenseResults(retriever, docs) ==
    LET r == retriever.vector_store_retriever
        ranked == ByScore(docs, LAMBDA d : d.similarity)
        pool == Take(ranked, r.fetch_k)
        n == IF r.k < Len(pool) THEN r.k ELSE Len(pool)
    IN  IF r.search_type = "similarity_score_threshold"
        THEN {Take(SelectSeq(ranked, LAMBDA i : docs[i].similarity >= r.score_threshold),
                   r.k)}
        ELSE {s \in [1..n -> Range(pool)] :
                 /\ \A i, j \in 1..n : i # j => s[i] # s[j]
                 /\ n > 0 => s[1] = pool[1]}

RECURSIVE RrfScale(_)
RrfScale(n) == IF n = 0 THEN 1 ELSE (n + RrfC) * RrfScale(n - 1)

\* EnsembleRetriever: weighted reciprocal rank fusion of the two lists; a
\* document at rank r of a list gets weight / (r + 60) from it.
EnsembleResults(retriever, bm25, dense) ==
    LET RankShare(list, i) ==
            IF i \in Range(list)
            THEN RrfScale(MaxDocs + 1) \div (PositionIn(list, i) + RrfC)
            ELSE 0
        all == bm25 \o SelectSeq(dense, LAMBDA i : i \notin Range(bm25))
        fused == SortedDesc([n \in DOMAIN all |->
                     <<all[n], retriever.weights[1] * RankShare(bm25, all[n])
                                 + retriever.weights[2] * RankShare(dense, all[n])>>])
    IN  [n \in DOMAIN fused |-> fused[n][1]]

\* query_vector_store: retriever.invoke(query, k=k); the ensemble passes no
\* k on to its retrievers.
query_vector_store(retriever, docs, dense) ==
    EnsembleResults(retriever, DocsBm25Results(retriever, docs), dense)

\* document_search_impl: a RetrievalSystem of its own, then the query; no
\* retriever sets metadata["score"], so similarity_score is None.
document_search_impl(docs, search_input, dense) ==
    LET documents == query_vector_store(RetrievalSystem, docs, dense)
    IN  [i \in DOMAIN documents |->
            [content |-> documents[i], similarity_score |-> <<>>]]

InitDocs ==
    /\ store = <<>>
    /\ chroma_dir = [exists |-> FALSE, docs |-> <<>>]
    /\ vector_store = None
    /\ bm25_retriever = None
    /\ vehicles_corpus = <<>>
    /\ vehicles_metadata = <<>>
    /\ _initialized = FALSE
    /\ built = FALSE
    /\ \E docs \in DocumentSets : call = [op |-> "documents", documents |-> docs]

\* document_search_impl(query, k, score_threshold)
DocumentSearch ==
    /\ call.op = "documents"
    /\ \E k \in DocumentKs, score_threshold \in Thresholds :
          \E dense \in DenseResults(RetrievalSystem, call.documents) :
             call' = [op |-> "document_search", documents |-> call.documents,
                      k |-> k, score_threshold |-> score_threshold,
                      retriever |-> RetrievalSystem,
                      result |-> document_search_impl(
                                     call.documents,
                                     [k |-> k, score_threshold |-> score_threshold],
                                     dense)]
    /\ UNCHANGED <<store, chroma_dir, engineVars, _initialized, built>>

\* RetrievalSystem(...).initialize_retriever(k, score_threshold), then
\* query_vector_store(query)
QueryVectorStore ==
    /\ call.op = "documents"
    /\ \E k \in DocumentKs, score_threshold \in Thresholds :
          LET retriever == initialize_retriever(k, score_threshold)
          IN  \E dense \in DenseResults(retriever, call.documents) :
                 call' = [op |-> "query_vector_store", documents |-> call.documents,
                          k |-> k, score_threshold |-> score_threshold,
                          retriever |-> retriever, dense |-> dense,
                          result |-> query_vector_store(retriever, call.documents,
                                                        dense)]
    /\ UNCHANGED <<store, chroma_dir, engineVars, _initialized, built>>

NextDocs ==
    \/ DocumentSearch
    \/ QueryVectorStore

SpecDocs == InitDocs /\ [][NextDocs]_vars

-----------------------------------------------------------------------------
(* Claims about document retrieval *)

\* C20 (as claimed): a document search given a score_threshold returns no
\* document that scores below it; given none, its dense retriever runs in
\* maximal-marginal-relevance mode.
C20_HonoursThreshold ==
    call.op = "document_search" =>
        /\ Given(call.score_threshold) =>
              \A i \in DOMAIN call.result :
                  call.documents[call.result[i].content].similarity
                      >= call.score_threshold[1]
        /\ ~Given(call.score_threshold) =>
              call.retriever.vector_store_retriever.search_type = "mmr"

-----------------------------------------------------------------------------
(* Claims about the fact-check result *)

KnownClaimTypes == {"stock_id", "price", "vehicle_mention", "mileage"}

\* The original texts of the claims of the verifications that are (not) valid,
\* in the order of the verifications.
RECURSIVE TextsWhere(_, _)
TextsWhere(verifications, wanted) ==
    IF verifications = <<>> THEN <<>>
    ELSE (IF IsValid(verifications[1]) = wanted
          THEN <<verifications[1].claim.original_text>> ELSE <<>>)
         \o TextsWhere(Tail(verifications), wanted)

\* C21 (as claimed): every enhanced_fact_check_impl call returns a result
\* whose confidence_score is valid_claims / claims_found, between 0 and 1,
\* whose is_accurate is true exactly when no extracted claim is invalid, with
\* one discrepancy per invalid claim and one verified fact per valid claim of
\* a known type, in the order of the claims.
C21_ConfidenceAndAccuracy ==
    call.op = "enhanced_fact_check" =>
        /\ call.result.status = "returned"
        /\ LET r == call.result.value
               vs == r.validation_details.verifications
               score == r.confidence_score
           IN  /\ r.claims_found = Len(call.claims)
               /\ Len(vs) = r.claims_found
               /\ score.denominator > 0
               /\ 0 <= score.numerator /\ score.numerator <= score.denominator
               /\ r.claims_found > 0 =>
                     score.numerator * r.claims_found
                        = CountWhere(vs, TRUE) * score.denominator
               /\ r.is_accurate = (CountWhere(vs, FALSE) = 0)
               /\ [i \in DOMAIN r.discrepancies |-> r.discrepancies[i].claim]
                     = TextsWhere(vs, FALSE)
               /\ \A i \in DOMAIN vs : vs[i].claim.type \in KnownClaimTypes
               /\ [i \in DOMAIN r.verified_facts |-> r.verified_facts[i].claim]
                     = TextsWhere(vs, TRUE)

-----------------------------------------------------------------------------
(* ValidatedRAGChain.invoke step by step: the calls it makes to the retriever, *)
(* the language model and the fact checker, in the order it makes them         *)

\* What the retriever may return for a question.
ChainDocuments ==
    {<<>>,
     <<[page_content |-> "toyota corolla", metadata |-> [stock_id |-> StockBase + 1]]>>,
     <<[page_content |-> "hello", metadata |-> [source |-> "faq"]]>>}

\* _retrieve_context: "\n\n".join of the contents, each after its stock id.
RECURSIVE FormatContext(_)
FormatContext(documents) ==
    IF documents = <<>> THEN ""
    ELSE LET doc == documents[1]
             content == IF "stock_id" \in DOMAIN doc.metadata
                        THEN "[Stock ID: " \o ToString(doc.metadata.stock_id) \o "] "
                                 \o doc.page_content
                        ELSE doc.page_content
         IN  IF Len(documents) = 1 THEN content
             ELSE content \o "\n\n" \o FormatContext(Tail(documents))

\* The inventories a chain runs against.
ChainInventories == {<<>>} \cup {<<sid>> : sid \in StockIds}

ChainIdle ==
    [op |-> "chain", pc |-> "idle", question |-> "", enable_fact_checking |-> TRUE,
     has_fact_checker |-> TRUE, log |-> <<>>, documents |-> <<>>, context |-> "",
     response |-> "", report |-> <<>>, result |-> <<>>]

InitChain ==
    /\ store \in ChainInventories
    /\ chroma_dir = [exists |-> FALSE, docs |-> <<>>]
    /\ vector_store = None
    /\ bm25_retriever = None
    /\ vehicles_corpus = <<>>
    /\ vehicles_metadata = <<>>
    /\ _initialized = FALSE
    /\ built = FALSE
    /\ call = ChainIdle

\* invoke, lines 153-156: the question is read and required.
ChainInvoke ==
    /\ call.op = "chain" /\ call.pc = "idle"
    /\ \E question \in Questions, settings \in ChainSettings :
          call' = [call EXCEPT !.question = question,
                               !.enable_fact_checking = settings[1],
                               !.has_fact_checker = settings[2],
                               !.pc = IF question = "" THEN "done" ELSE "retrieve",
                               !.result = IF question = "" THEN <<QuestionRequired>>
                                          ELSE <<>>]
    /\ UNCHANGED <<store, chroma_dir, engineVars, _initialized, built>>

\* Step 1, _retrieve_context: retriever.invoke(question).
RetrieveContext ==
    /\ call.op = "chain" /\ call.pc = "retrieve"
    /\ \E documents \in ChainDocuments :
          call' = [call EXCEPT !.documents = documents,
                               !.context = FormatContext(documents),
                               !.log = Append(@, [step |-> "retrieve",
                                                  input |-> call.question]),
                               !.pc = "generate"]
    /\ UNCHANGED <<store, chroma_dir, engineVars, _initialized, built>>

\* Step 2, _generate_response: the language model answers the prompt made of
\* the context and the question.
GenerateResponse ==
    /\ call.op = "chain" /\ call.pc = "generate"
    /\ \E response \in FactTexts :
          call' = [call EXCEPT !.response = response,
                               !.log = Append(@, [step |-> "generate",
                                                  input |-> call.question]),
                               !.pc = "validate"]
    /\ UNCHANGED <<store, chroma_dir, engineVars, _initialized, built>>

\* Step 3, _validate_response, and the return of invoke: verify_text is called
\* when fact checking is enabled and a fact checker was given.
ValidateResponse ==
    /\ call.op = "chain" /\ call.pc = "validate"
    /\ LET checks == call.enable_fact_checking /\ call.has_fact_checker
       IN  \E failing \in Failures(ClaimsOfText[call.response]) :
             /\ ~checks => failing = {}
             /\ call' = [call EXCEPT
                   !.log = IF checks
                           THEN Append(@, [step |-> "fact_check", input |-> call.response])
                           ELSE @,
                   !.report = IF checks
                              THEN <<verify_text(call.response, Rows, PriceToleranceMilli,
                                                 failing)>>
                              ELSE <<>>,
                   !.result = <<invoke(call.question, call.documents, call.context,
                                       call.response, Rows, call.enable_fact_checking,
                                       call.has_fact_checker, failing)>>,
                   !.pc = "done"]
    /\ UNCHANGED <<store, chroma_dir, engineVars, _initialized, built>>

NextChain ==
    \/ ChainInvoke
    \/ RetrieveContext
    \/ GenerateResponse
    \/ ValidateResponse

SpecChain == InitChain /\ [][NextChain]_vars

-----------------------------------------------------------------------------
(* Claims about the chain *)

StepsOf(log) == [i \in DOMAIN log |-> log[i].step]

\* C22 (as claimed): an invoke with a question performs retrieval, then
\* generation, then the fact check, each exactly once and in that order, and
\* the text fact-checked is the response generated; an invoke without a
\* question raises before any of the three; the validated flag returned is the
\* valid flag of the fact checker's report.
C22_RetrieveGenerateCheck ==
    (call.op = "chain" /\ call.pc = "done") =>
        IF call.question = ""
        THEN call.result = <<QuestionRequired>> /\ call.log = <<>>
        ELSE /\ StepsOf(call.log) = <<"retrieve", "generate", "fact_check">>
             /\ call.log[3].input = call.response
             /\ call.result[1].status = "returned" =>
                   /\ call.report # <<>>
                   /\ call.result[1].value.validation_results.validated
                         = call.report[1].valid

-----------------------------------------------------------------------------
(* Claims about the index after rebuilds *)

\* get_vehicle_by_stock_id: the first metadata entry of the stock id, or None
\* (the empty sequence).
get_vehicle_by_stock_id(e, stock_id) ==
    LET found == {i \in DOMAIN e.vehicles_metadata :
                     e.vehicles_metadata[i].stock_id = stock_id}
    IN  IF found = {} THEN <<>> ELSE <<e.vehicles_metadata[SetMin(found)]>>

\* The stock ids a search of the engine can return, over every query and k.
SearchedStockIds(e) ==
    UNION {LET result == search(e, q, k)
           IN  IF result.status = "returned"
               THEN {result.value[i].vehicle.metadata.stock_id : i \in DOMAIN result.value}
               ELSE {}
           : q \in Queries, k \in Ks}

\* C23 (as claimed): right after a build_index the fuzzy corpus and the
\* metadata list hold exactly the vehicles of the inventory that build read,
\* and a vehicle that is not in that inventory is returned neither by
\* get_vehicle_by_stock_id nor by a search.
C23_IndexIsLastInventory ==
    call.op = "build_index" =>
        LET read == {Vehicle(call.rows[i]) : i \in DOMAIN call.rows}
        IN  /\ {vehicles_metadata[i].stock_id : i \in DOMAIN vehicles_metadata}
                  = {v.stock_id : v \in read}
            /\ Range(vehicles_corpus) = {SearchText(v) : v \in read}
            /\ \A sid \in StockIds :
                  Vehicle(sid) \notin read =>
                     /\ get_vehicle_by_stock_id(Engine, Vehicle(sid).stock_id) = <<>>
                     /\ Vehicle(sid).stock_id \notin SearchedStockIds(Engine)

\* C24 (as claimed): in every search that gets past the not-ready check, each
\* fuzzy hit <<text, score, metadata>> carries the metadata of the vehicle
\* whose text was matched, with the similarity of the query to that text, for
\* every query and every k.
C24_FuzzyHitOwnVehicle ==
    \A q \in Queries, k \in Ks :
        (search(Engine, q, k).status = "returned" /\ vehicles_corpus # <<>>) =>
            LET fuzzy_results == FuzzyResults(Engine, q, k * 2)
            IN  \A i \in DOMAIN fuzzy_results :
                   /\ fuzzy_results[i][3].text = fuzzy_results[i][1]
                   /\ fuzzy_results[i][2] = FuzzScore(q, fuzzy_results[i][3].text)

-----------------------------------------------------------------------------
(* Claims about the fused candidate set *)

CombinedIds(combined) == [i \in DOMAIN combined |-> combined[i].vehicle.metadata.stock_id]

\* C25: the output of _combine_scores has exactly one candidate for every
\* stock id returned by at least one method and no other candidate, and a
\* stock id returned by several methods has each method's score in that one
\* candidate.
C25_UnionPerStockId ==
    call.op = "rerank" =>
        LET ids == CombinedIds(call.combined)
            vector_ids == VectorIds(call.vector_results)
            bm25_ids == Bm25Ids(call.bm25_results)
            fuzzy_ids == FuzzyIds(call.fuzzy_results)
        IN  /\ Range(ids) = Range(vector_ids) \cup Range(bm25_ids) \cup Range(fuzzy_ids)
            /\ \A i, j \in DOMAIN ids : ids[i] = ids[j] => i = j
            /\ \A i \in DOMAIN ids :
                  LET c == call.combined[i]
                  IN  /\ ids[i] \in Range(vector_ids) =>
                            IsMethodScore(vector_ids, VectorRaw(call.vector_results),
                                          ids[i], c.vector_score)
                      /\ ids[i] \in Range(bm25_ids) =>
                            IsMethodScore(bm25_ids, Bm25Raw(call.bm25_results),
                                          ids[i], c.bm25_score)
                      /\ ids[i] \in Range(fuzzy_ids) =>
                            IsMethodScore(fuzzy_ids, FuzzyRaw(call.fuzzy_results),
                                          ids[i], c.fuzzy_score)

\* C25 witness: a fusion in which one stock id was returned by all three
\* methods, twice by the vector method, and another by one method only.
C25_Witness ==
    /\ call.op = "rerank"
    /\ \E sid \in Range(CombinedIds(call.combined)) :
          /\ Cardinality({i \in DOMAIN call.vector_results :
                             VectorIds(call.vector_results)[i] = sid}) = 2
          /\ sid \in Range(Bm25Ids(call.bm25_results))
          /\ sid \in Range(FuzzyIds(call.fuzzy_results))
    /\ \E c \in Range(call.combined) :
          /\ c.vehicle.metadata.stock_id \notin Range(VectorIds(call.vector_results))
          /\ c.vehicle.metadata.stock_id \notin Range(FuzzyIds(call.fuzzy_results))
          /\ c.bm25_score > 0

-----------------------------------------------------------------------------
(* One engine instance used by two threads: one runs build_index statement by *)
(* statement, the other runs search() read by read. Nothing in the engine     *)
(* orders the two.                                                            *)

\* BM25Retriever.from_documents sets k to the library's default before
\* build_index sets it to 10.
Bm25DefaultK == 4

\* What a search can tell apart: the collection, the lexical index, the corpus.
Snapshot(e) ==
    [docs |-> e.chroma_dir.docs, bm25_retriever |-> e.bm25_retriever,
     vehicles_corpus |-> e.vehicles_corpus]

NoSnapshot == [docs |-> <<>>, bm25_retriever |-> None, vehicles_corpus |-> <<>>]

SearchIdle ==
    [pc |-> "idle", q |-> <<>>, k |-> 1, vector_results |-> <<>>, bm25_results |-> <<>>,
     seen |-> NoSnapshot, result |-> <<>>]

InitConcurrent ==
    /\ store \in ChainInventories
    /\ chroma_dir = [exists |-> FALSE, docs |-> <<>>]
    /\ vector_store = None
    /\ bm25_retriever = None
    /\ vehicles_corpus = <<>>
    /\ vehicles_metadata = <<>>
    /\ _initialized = FALSE
    /\ built = FALSE
    /\ call = [op |-> "threads", build |-> [pc |-> "idle", documents |-> <<>>],
               search |-> SearchIdle, completed |-> {}]

\* The inventory changes while the engine is in use.
InsertVehicle(sid) ==
    /\ sid \notin Range(store)
    /\ store' = InsertRow(store, sid)
    /\ UNCHANGED <<chroma_dir, engineVars, _initialized, built, call>>

\* build_index, line 140: _prepare_documents reads the table and appends to
\* the fuzzy corpus and the metadata list; lines 142-144: nothing to index.
BuildPrepare ==
    /\ call.build.pc = "idle"
    /\ CanBuild
    /\ LET documents == _prepare_documents(store)
       IN  /\ vehicles_corpus' = vehicles_corpus \o PreparedCorpus(store)
           /\ vehicles_metadata' = vehicles_metadata \o PreparedMetadata(store)
           /\ call' = IF documents = <<>>
                      THEN [call EXCEPT !.completed = @ \cup {Snapshot(Engine)}]
                      ELSE [call EXCEPT !.build = [pc |-> "vector",
                                                   documents |-> documents]]
    /\ UNCHANGED <<store, chroma_dir, vector_store, bm25_retriever, _initialized, built>>

\* Lines 147-151: Chroma.from_documents.
BuildVector ==
    /\ call.build.pc = "vector"
    /\ chroma_dir' = [exists |-> TRUE, docs |-> chroma_dir.docs \o call.build.documents]
    /\ vector_store' = Chroma
    /\ call' = [call EXCEPT !.build.pc = "bm25"]
    /\ UNCHANGED <<store, bm25_retriever, vehicles_corpus, vehicles_metadata,
                   _initialized, built>>

\* Line 154: BM25Retriever.from_documents.
BuildBm25 ==
    /\ call.build.pc = "bm25"
    /\ bm25_retriever' = [type |-> "BM25Retriever", docs |-> call.build.documents,
                          k |-> Bm25DefaultK]
    /\ call' = [call EXCEPT !.build.pc = "k"]
    /\ UNCHANGED <<store, chroma_dir, vector_store, vehicles_corpus, vehicles_metadata,
                   _initialized, built>>

\* Line 155, and the return of build_index.
BuildSetK ==
    /\ call.build.pc = "k"
    /\ bm25_retriever' = [bm25_retriever EXCEPT !.k = BM25_K]
    /\ built' = TRUE
    /\ call' = [call EXCEPT !.build = [pc |-> "idle", documents |-> <<>>],
                            !.completed = @ \cup
                                {Snapshot([Engine EXCEPT !.bm25_retriever.k = BM25_K])}]
    /\ UNCHANGED <<store, chroma_dir, vector_store, vehicles_corpus, vehicles_metadata,
                   _initialized>>

\* search, lines 264-265: the not-ready check.
SearchCheck ==
    /\ call.search.pc \in {"idle", "done"}
    /\ \E q \in Queries, k \in Ks :
          call' = [call EXCEPT !.search =
                      IF vector_store = None \/ bm25_retriever = None
                      THEN [SearchIdle EXCEPT !.pc = "done", !.q = <<q>>, !.k = k,
                                              !.result = <<NotBuiltError>>]
                      ELSE [SearchIdle EXCEPT !.pc = "vector", !.q = <<q>>, !.k = k]]
    /\ UNCHANGED <<store, chroma_dir, engineVars, _initialized, built>>

\* Lines 268-273: the vector search reads the collection.
SearchVector ==
    /\ call.search.pc = "vector"
    /\ call' = [call EXCEPT
          !.search.vector_results = IF vector_store # None
                                    THEN VectorResults(Engine, call.search.q[1],
                                                       call.search.k * 2)
                                    ELSE <<>>,
          !.search.seen.docs = chroma_dir.docs,
          !.search.pc = "bm25"]
    /\ UNCHANGED <<store, chroma_dir, engineVars, _initialized, built>>

\* Lines 276-279: the lexical search reads the retriever.
SearchBm25 ==
    /\ call.search.pc = "bm25"
    /\ call' = [call EXCEPT
          !.search.bm25_results = IF bm25_retriever # None
                                  THEN Bm25Results(Engine, call.search.q[1])
                                  ELSE <<>>,
          !.search.seen.bm25_retriever = bm25_retriever,
          !.search.pc = "fuzzy"]
    /\ UNCHANGED <<store, chroma_dir, engineVars, _initialized, built>>

\* Lines 282-302: the fuzzy search reads the corpus and the metadata list;
\* then the three lists are combined, sorted and cut.
SearchFuzzy ==
    /\ call.search.pc = "fuzzy"
    /\ call' = [call EXCEPT
          !.search.seen.vehicles_corpus = vehicles_corpus,
          !.search.result =
              <<Returned(Rerank(call.search.vector_results, call.search.bm25_results,
                                IF vehicles_corpus # <<>>
                                THEN FuzzyResults(Engine, call.search.q[1],
                                                  call.search.k * 2)
                                ELSE <<>>,
                                call.search.k))>>,
          !.search.pc = "done"]
    /\ UNCHANGED <<store, chroma_dir, engineVars, _initialized, built>>

NextConcurrent ==
    \/ \E sid \in StockIds : InsertVehicle(sid)
    \/ BuildPrepare
    \/ BuildVector
    \/ BuildBm25
    \/ BuildSetK
    \/ SearchCheck
    \/ SearchVector
    \/ SearchBm25
    \/ SearchFuzzy

SpecConcurrent == InitConcurrent /\ [][NextConcurrent]_vars

-----------------------------------------------------------------------------
(* Claims about interleaved builds and searches *)

\* C26 (as claimed): a finished search either raised the not-ready error or
\* read a collection, a lexical index and a fuzzy corpus that are those of one
\* completed build_index.
C26_SearchSeesOneBuild ==
    (call.op = "threads" /\ call.search.pc = "done") =>
        \/ call.search.result = <<NotBuiltError>>
        \/ call.search.seen \in call.completed

-----------------------------------------------------------------------------
(* Claims about instances *)

\* The texts this engine instance has indexed since it was constructed.
IndexedByInstance(e) == Range(e.vehicles_corpus)

\* C27 (as claimed): whenever a search of the current instance gets past the
\* not-ready check, every vector hit is a document this instance indexed, and
\* carries a stock_id.
C27_NoForeignDocuments ==
    \A q \in Queries, k \in Ks :
        search(Engine, q, k).status = "returned" =>
            LET vector_results == VectorResults(Engine, q, k * 2)
            IN  \A i \in DOMAIN vector_results :
                   /\ vector_results[i][1].page_content \in IndexedByInstance(Engine)
                   /\ "stock_id" \in DOMAIN vector_results[i][1].metadata

-----------------------------------------------------------------------------
(* The database sessions of a FactChecker: get_session_sync opens a session;  *)
(* a session stays open until it is closed                                    *)

MaxOpenSessions == 4

\* _get_session: the sessions open after the call; a FactChecker constructed
\* with a session returns that one, another opens a new one.
_get_session(has_db_session, open_sessions) ==
    IF has_db_session THEN open_sessions ELSE open_sessions + 1

\* The sessions open after verify_claim: one _get_session, nothing closed.
SessionsAfterClaim(has_db_session, open_sessions) ==
    _get_session(has_db_session, open_sessions)

\* The sessions open after verify_text: one verify_claim per claim.
RECURSIVE SessionsAfterText(_, _, _)
SessionsAfterText(has_db_session, open_sessions, claims) ==
    IF claims = <<>> THEN open_sessions
    ELSE SessionsAfterText(has_db_session,
                           SessionsAfterClaim(has_db_session, open_sessions),
                           Tail(claims))

\* The texts checked with session counting: the single phrases.
SessionTexts == {""} \cup Phrases

InitSessions ==
    /\ store \in ChainInventories
    /\ chroma_dir = [exists |-> FALSE, docs |-> <<>>]
    /\ vector_store = None
    /\ bm25_retriever = None
    /\ vehicles_corpus = <<>>
    /\ vehicles_metadata = <<>>
    /\ _initialized = FALSE
    /\ built = FALSE
    /\ \E has_db_session \in BOOLEAN :
          call = [op |-> "fact_checker", has_db_session |-> has_db_session,
                  open_sessions |-> 0, before |-> 0, last |-> "__init__", text |-> "",
                  valid |-> TRUE]

SessionVerifyClaim ==
    /\ call.op = "fact_checker"
    /\ \E text \in SessionTexts :
          \E i \in DOMAIN ClaimsOfText[text], raises \in BOOLEAN :
             LET after == SessionsAfterClaim(call.has_db_session, call.open_sessions)
             IN  /\ after <= MaxOpenSessions
                 /\ call' = [call EXCEPT
                       !.before = call.open_sessions,
                       !.open_sessions = after,
                       !.last = "verify_claim",
                       !.text = ClaimsOfText[text][i].original_text,
                       !.valid = IsValid(verify_claim(ClaimsOfText[text][i], Rows,
                                                      PriceToleranceMilli, raises))]
    /\ UNCHANGED <<store, chroma_dir, engineVars, _initialized, built>>

SessionVerifyText ==
    /\ call.op = "fact_checker"
    /\ \E text \in SessionTexts :
          \E failing \in Failures(ClaimsOfText[text]) :
             LET after == SessionsAfterText(call.has_db_session, call.open_sessions,
                                            ClaimsOfText[text])
             IN  /\ after <= MaxOpenSessions
                 /\ call' = [call EXCEPT
                       !.before = call.open_sessions,
                       !.open_sessions = after,
                       !.last = "verify_text",
                       !.text = text,
                       !.valid = verify_text(text, Rows, PriceToleranceMilli,
                                             failing).valid]
    /\ UNCHANGED <<store, chroma_dir, engineVars, _initialized, built>>

NextSessions ==
    \/ SessionVerifyClaim
    \/ SessionVerifyText

SpecSessions == InitSessions /\ [][NextSessions]_vars

\* C28 (as claimed): after verify_claim or verify_text has returned, as many
\* sessions are open as before the call.
C28_SessionsReleased ==
    (call.op = "fact_checker" /\ call.last \in {"verify_claim", "verify_text"}) =>
        call.open_sessions = call.before

-----------------------------------------------------------------------------
(* Claims about the initialised service *)

\* C29 (as claimed): whenever the service's _initialized is true the engine
\* has both indices, and no search_vehicles call ends in the not-ready error.
C29_InitializedIsIndexed ==
    /\ _initialized => (built /\ vector_store # None /\ bm25_retriever # None)
    /\ call.op = "search_vehicles" => call.result # NotBuiltError

-----------------------------------------------------------------------------
(* Claims about the price tolerance *)

\* The tolerances compared, in thousandths: none, the default, 100%.
PriceTolerances == {0, PriceToleranceMilli, 1000}

====
